---- MODULE Spec2Model ----
(***************************************************************************)
(* A model of the SMART Planner training code (browser-native-llm/         *)
(* training/model): the transformer's forward pass and its shapes, the SFT *)
(* and DPO datasets and their items, the DPO loss, and the train           *)
(* procedures of the three stages (pretraining, SFT, DPO); and, of the     *)
(* tools around them, repeat_kv, the tensor names of the GGUF export and   *)
(* the sharding of a model file.                                           *)
(*                                                                         *)
(* Tensors are functions over 0..n-1, so that positions in the model are   *)
(* the positions of the source.  A tensor's batch dimension is modelled    *)
(* only where the code mixes rows (the DPO micro-batch); forward treats    *)
(* every row independently and is modelled on one row.                     *)
(*                                                                         *)
(* Floating point values are abstracted in two ways.  A hidden state or a  *)
(* logit vector is the set of <<position, token>> pairs of the input it is *)
(* computed from (every per-position operation keeps the set, attention    *)
(* joins the sets of the positions whose softmax weight is not zero).  A   *)
(* scalar loss is a fixed-point integer.                                   *)
(***************************************************************************)
EXTENDS Integers, Sequences, FiniteSets, TLC

VARIABLES
    \* --- forward pass (two independent calls, side by side) ---
    input_a, input_b, result_a, result_b,
    \* --- SFTDataset: its max_seq_length and mask_input, the example read,
    \*     the item __getitem__ returns, and forward's result on the item ---
    sft_max, mask_input, example, item, sft_out,
    \* --- DPODataset and one micro-batch of dpo.train: the dataset's
    \*     max_seq_length, its pairs, the collated batch, the log-probs ---
    dpo_max, pairs, batch, logps,
    \* --- dpo_loss: its arguments, its result, and the arguments and result
    \*     of the call before the policy's chosen log-probability rose ---
    loss_in, beta, label_smoothing, loss_out, loss_prev,
    \* --- dpo.train: the position in the procedure, the step counter, the
    \*     configuration, whether CUDA is available, the checkpoint at
    \*     load_from, the heap of Parameter objects and storages, the two
    \*     models, the optimiser's parameters, the files written; and, for
    \*     the record, the values cloned and the number of clones made ---
    pc, step, cfg, cuda, load_from, heap, policy, ref, opt_params, files,
    cloned_values, clones,
    \* --- the train procedures of the three stages: the stage, pretraining's
    \*     micro_step, the learning rate of the optimiser's parameter groups,
    \*     the messages printed about the checkpoint, and what the
    \*     checkpoint directory held when the run began ---
    stage, earlier, micro_step, lr, log,
    \* --- the shapes of one forward call: the model's configuration, the
    \*     shape of input_ids, and the shapes forward produces ---
    shape_cfg, shape_in, shape_out,
    \* --- the dataset constructors: the lines of the data file and what the
    \*     constructor leaves ---
    data_kind, data_file, dataset,
    \* --- the number of times train() was started again after an abort ---
    runs,
    \* --- the preference pairs dpo.train reads from its data files ---
    train_data,
    \* --- one call of a function of the export and sharding tools: its
    \*     arguments and what it returns ---
    args, returned

fwVars == <<input_a, input_b, result_a, result_b>>
sftVars == <<sft_max, mask_input, example, item, sft_out>>
dpoVars == <<dpo_max, pairs, batch, logps>>
lossVars == <<loss_in, beta, label_smoothing, loss_out, loss_prev>>
trainVars == <<pc, step, cfg, cuda, load_from, heap, policy, ref, opt_params,
               files, cloned_values, clones, stage, earlier, micro_step, lr, log>>

shapeVars == <<shape_cfg, shape_in, shape_out>>
loadVars == <<data_kind, data_file, dataset>>
runVars == <<runs>>
dataVars == <<train_data>>
callVars == <<args, returned>>

vars == <<fwVars, sftVars, dpoVars, lossVars, trainVars, shapeVars, loadVars,
          runVars, dataVars, callVars>>

\* What the actions of one specification leave alone.
otherThanFw == <<sftVars, dpoVars, lossVars, trainVars, shapeVars, loadVars,
    runVars, dataVars, callVars>>
otherThanSft == <<fwVars, dpoVars, lossVars, trainVars, shapeVars, loadVars,
    runVars, dataVars, callVars>>
otherThanDpo == <<fwVars, sftVars, lossVars, trainVars, shapeVars, loadVars,
    runVars, dataVars, callVars>>
otherThanLoss == <<fwVars, sftVars, dpoVars, trainVars, shapeVars, loadVars,
    runVars, dataVars, callVars>>
otherThanTrain == <<fwVars, sftVars, dpoVars, lossVars, shapeVars, loadVars,
    runVars, dataVars, callVars>>
otherThanShape == <<fwVars, sftVars, dpoVars, lossVars, trainVars, loadVars,
    runVars, dataVars, callVars>>
otherThanLoad == <<fwVars, sftVars, dpoVars, lossVars, trainVars, shapeVars,
    runVars, dataVars, callVars>>

----------------------------------------------------------------------------
(* Bounds of the model *)

\* config.max_seq_length of the model under check (1024 in ModelConfig).
MaxSeqLength == 3
\* config.n_layers of the model under check (12 in ModelConfig).
NLayers == 2
\* config.vocab_size of the model under check (32000 in ModelConfig).
VocabSize == 2

\* float("-inf"), the value torch.full puts in the mask.
NegInf == -999999
\* ignore_index of F.cross_entropy.
IgnoreIndex == -100

----------------------------------------------------------------------------
(* Tensors and Python slicing *)

TLen(t) == Cardinality(DOMAIN t)

Min(a, b) == IF a < b THEN a ELSE b
Max(a, b) == IF a > b THEN a ELSE b

\* A slice bound as Python normalises it: a negative bound counts from the
\* end, and the result is clamped to 0..n.
PyBound(i, n) == Min(Max(IF i < 0 THEN i + n ELSE i, 0), n)

\* t[start:stop]
PySlice(t, start, stop) ==
    LET n  == TLen(t)
        lo == PyBound(start, n)
        hi == PyBound(stop, n)
    IN  [k \in 0..(hi - lo - 1) |-> t[lo + k]]

\* t[start:]
PySliceFrom(t, start) == PySlice(t, start, TLen(t))

\* t[:stop]
PySliceTo(t, stop) == PySlice(t, 0, stop)

\* All tensors of length n over S.
Tensors(S, n) == [0..(n - 1) -> S]

----------------------------------------------------------------------------
(* architecture.py *)

\* torch.triu(torch.full((n, n), -inf), diagonal=1): the elements with
\* column - row >= 1 are kept, the others are zeroed.
CausalMask_NoMask(n) == [i \in 0..(n - 1) |-> [j \in 0..(n - 1) |-> 0]]
CausalMask(n) ==
    [i \in 0..(n - 1) |-> [j \in 0..(n - 1) |->
        IF j - i >= 1 THEN NegInf ELSE 0]]

\* self.causal_mask[:seq_len, :seq_len]
MaskSlice(mask, seq_len) ==
    LET rows == PySliceTo(mask, seq_len)
    IN  [i \in DOMAIN rows |-> PySliceTo(rows[i], seq_len)]

\* self.token_embedding(input_ids): position i holds the embedding of its
\* own token.
Embed(input_ids) == [i \in DOMAIN input_ids |-> {<<i, input_ids[i]>>}]

\* GroupedQueryAttention.forward: the scores get the mask added, softmax
\* over the key axis gives weight 0 exactly to the keys whose score is
\* -inf, and the output at i is the weighted sum of the values.
Attention(x, mask) ==
    [i \in DOMAIN x |->
        UNION {x[j] : j \in {k \in DOMAIN x : mask[i][k] # NegInf}}]

\* TransformerBlock.forward: x + attention(norm(x)), then x + ffn(norm(x));
\* the norms and the feed-forward work on each position alone.
Block(x, mask) ==
    LET attn == Attention(x, mask)
    IN  [i \in DOMAIN x |-> x[i] \cup attn[i]]

RECURSIVE Layers(_, _, _)
Layers(x, mask, n) == IF n = 0 THEN x ELSE Layers(Block(x, mask), mask, n - 1)

\* The cross-entropy of forward: shift_logits = logits[:-1], shift_labels =
\* labels[1:], and the mean runs over the positions whose label is not the
\* ignore index.  The loss is the set of its terms <<logits, label>>.
CrossEntropy(logits, labels) ==
    LET shift_logits == PySliceTo(logits, -1)
        shift_labels == PySliceFrom(labels, 1)
    IN  {[pos |-> k + 1, logits |-> shift_logits[k], label |-> shift_labels[k]] :
            k \in {j \in DOMAIN shift_labels : shift_labels[j] # IgnoreIndex}}

\* SmartPlannerModel.forward on one row of the batch; labels = <<>> stands
\* for labels=None.
ForwardTruncating(input_ids, labels, max_seq_length) ==
    LET ids  == PySliceTo(input_ids, max_seq_length)
        mask == MaskSlice(CausalMask(max_seq_length), TLen(ids))
    IN  [status |-> "ok", logits |-> Layers(Embed(ids), mask, NLayers),
         loss |-> {}]
Forward(input_ids, labels, max_seq_length) ==
    LET seq_len == TLen(input_ids)
    IN  IF ~(seq_len <= max_seq_length)
        THEN [status |-> "AssertionError"]
        ELSE LET mask   == MaskSlice(CausalMask(max_seq_length), seq_len)
                 logits == Layers(Embed(input_ids), mask, NLayers)
             IN  [status |-> "ok", logits |-> logits,
                  loss |-> IF labels = <<>> THEN {}
                           ELSE CrossEntropy(logits, labels)]

----------------------------------------------------------------------------
(* Specification of the forward pass: two inputs, each given to forward. *)

NotCalled == [status |-> "none"]

FwInputs == UNION {Tensors(0..(VocabSize - 1), n) : n \in 1..(MaxSeqLength + 1)}

FwInit ==
    /\ input_a \in FwInputs
    /\ input_b \in FwInputs
    /\ result_a = NotCalled
    /\ result_b = NotCalled

ForwardA ==
    /\ result_a = NotCalled
    /\ result_a' = Forward(input_a, <<>>, MaxSeqLength)
    /\ UNCHANGED <<input_a, input_b, result_b>>
    /\ UNCHANGED otherThanFw

ForwardB ==
    /\ result_b = NotCalled
    /\ result_b' = Forward(input_b, <<>>, MaxSeqLength)
    /\ UNCHANGED <<input_a, input_b, result_a>>
    /\ UNCHANGED otherThanFw

FwIdle ==
    /\ input_a = <<>>
    /\ input_b = <<>>
    /\ result_a = NotCalled
    /\ result_b = NotCalled

RunIdle == runs = 0

CallIdle ==
    /\ args = <<>>
    /\ returned = NotCalled

----------------------------------------------------------------------------
(* Text: a string is a tensor of character codes. *)

\* ord("\n")
Newline == 10
\* The modulus of the placeholder tokeniser, ord(c) % 32000.
TokenModulus == 32000
\* The id the tokenisers pad with, and the id get_log_probs masks.
PadId == 0

\* The longest system, user, assistant, prompt, chosen or rejected text.
MaxStr == 2
\* The largest max_seq_length a dataset is built with.
DataMaxSeqLength == 7

\* Characters of the SFT texts: "a", and a character whose code the
\* tokeniser maps to 0.
SftChars == {97, 32000}
\* Characters of the preference texts.
DpoChars == {97}

Strings(S) == UNION {Tensors(S, n) : n \in 0..MaxStr}

Concat(s, t) ==
    [k \in 0..(TLen(s) + TLen(t) - 1) |->
        IF k < TLen(s) THEN s[k] ELSE t[k - TLen(s)]]

\* [0] * n
Zeros(n) == [k \in 0..(n - 1) |-> PadId]

----------------------------------------------------------------------------
(* sft.py: SFTDataset.__getitem__ *)

\* f"{system}\n\n{user}\n\n{assistant}"
FullText(ex) ==
    LET nn == [k \in 0..1 |-> Newline]
    IN  Concat(Concat(Concat(Concat(ex.system, nn), ex.user), nn), ex.assistant)

\* tokens = [ord(c) % 32000 for c in full_text[:max]]; tokens + [0] * (max - len)
SftTokens(full_text, max_seq_length) ==
    LET cut    == PySliceTo(full_text, max_seq_length)
        tokens == [k \in DOMAIN cut |-> cut[k] % TokenModulus]
    IN  Concat(tokens, Zeros(max_seq_length - TLen(tokens)))

\* labels[:mask_length] = -100
MaskTo(labels, mask_length) ==
    LET hi == PyBound(mask_length, TLen(labels))
    IN  [k \in DOMAIN labels |-> IF k < hi THEN IgnoreIndex ELSE labels[k]]

SFTGetItem_OffByOne(ex, max_seq_length, masking) ==
    LET full_text    == FullText(ex)
        input_ids    == SftTokens(full_text, max_seq_length)
        input_length == TLen(full_text) - TLen(ex.assistant)
        labels       == IF masking THEN MaskTo(input_ids, input_length - 1)
                        ELSE input_ids
    IN  [status |-> "ok", input_ids |-> input_ids, labels |-> labels]
SFTGetItem(ex, max_seq_length, masking) ==
    LET full_text    == FullText(ex)
        input_ids    == SftTokens(full_text, max_seq_length)
        input_length == TLen(full_text) - TLen(ex.assistant)
        mask_length  == Min(input_length, max_seq_length)
        labels       == IF masking THEN MaskTo(input_ids, mask_length)
                        ELSE input_ids
    IN  [status |-> "ok", input_ids |-> input_ids, labels |-> labels]

----------------------------------------------------------------------------
(* Specification of the SFT data path: an example becomes an item, and    *)
(* the item is given to forward with its labels (sft.train, line 158).    *)

SftExamples == [system : Strings(SftChars), user : Strings(SftChars),
                assistant : Strings(SftChars)]

SftInit ==
    /\ sft_max \in 1..DataMaxSeqLength
    /\ mask_input \in BOOLEAN
    /\ example \in SftExamples
    /\ item = NotCalled
    /\ sft_out = NotCalled

SftIdle ==
    /\ sft_max = 0
    /\ mask_input = FALSE
    /\ example = <<>>
    /\ item = NotCalled
    /\ sft_out = NotCalled

GetItem ==
    /\ item = NotCalled
    /\ item' = SFTGetItem(example, sft_max, mask_input)
    /\ UNCHANGED <<sft_max, mask_input, example, sft_out>>
    /\ UNCHANGED otherThanSft

SftForward ==
    /\ item # NotCalled
    /\ sft_out = NotCalled
    /\ sft_out' = Forward(item.input_ids, item.labels, sft_max)
    /\ UNCHANGED <<sft_max, mask_input, example, item>>
    /\ UNCHANGED otherThanSft

----------------------------------------------------------------------------
(* dpo.py: DPODataset, get_log_probs *)

\* DPODataset._tokenize
Tokenize(text, max_seq_length) ==
    LET cut    == PySliceTo(text, max_seq_length)
        tokens == [k \in DOMAIN cut |-> cut[k] % TokenModulus]
    IN  Concat(tokens, Zeros(max_seq_length - TLen(tokens)))

\* DPODataset.__getitem__
DPOGetItem(pair, max_seq_length) ==
    LET n             == [k \in 0..0 |-> Newline]
        chosen_text   == Concat(Concat(pair.prompt, n), pair.chosen)
        rejected_text == Concat(Concat(pair.prompt, n), pair.rejected)
    IN  [chosen_ids    |-> Tokenize(chosen_text, max_seq_length),
         rejected_ids  |-> Tokenize(rejected_text, max_seq_length),
         prompt_length |-> Min(TLen(pair.prompt), max_seq_length)]

\* The DataLoader's default collate: each key's values stacked, one row per
\* item.
Collate(items) ==
    [status        |-> "ok",
     chosen_ids    |-> [r \in DOMAIN items |-> items[r].chosen_ids],
     rejected_ids  |-> [r \in DOMAIN items |-> items[r].rejected_ids],
     prompt_length |-> [r \in DOMAIN items |-> items[r].prompt_length]]

\* get_log_probs on the rows of input_ids.  torch.gather along the last
\* axis needs the index no longer than its input on the other axes; the
\* sum of a row is the set of its terms, the products whose mask is 1.
GetLogProbs(input_ids, prompt_length, max_seq_length) ==
    LET out == [r \in DOMAIN input_ids |->
                   Forward(input_ids[r], <<>>, max_seq_length)]
        response_logits == [r \in DOMAIN input_ids |->
                   PySlice(out[r].logits, prompt_length - 1, -1)]
        response_labels == [r \in DOMAIN input_ids |->
                   PySliceFrom(input_ids[r], prompt_length)]
    IN  IF \E r \in DOMAIN input_ids : out[r].status # "ok"
        THEN [status |-> "AssertionError"]
        ELSE IF \E r \in DOMAIN input_ids :
                    TLen(response_labels[r]) > TLen(response_logits[r])
        THEN [status |-> "RuntimeError"]
        ELSE [status |-> "ok",
              sums |-> [r \in DOMAIN input_ids |->
                  {[logits |-> response_logits[r][k],
                    label  |-> response_labels[r][k]] :
                      k \in {j \in DOMAIN response_labels[r] :
                                response_labels[r][j] # PadId}}]]

\* dpo.train, lines 214-234: the offset of the batch's first pair is given
\* to every get_log_probs call.  The reference model's calls are the same
\* function of the same arguments.
BatchPromptLength(b) == b.prompt_length[0]

BatchLogProbs(b, max_seq_length) ==
    LET prompt_length == BatchPromptLength(b)
        chosen   == GetLogProbs(b.chosen_ids, prompt_length, max_seq_length)
        rejected == GetLogProbs(b.rejected_ids, prompt_length, max_seq_length)
    IN  IF chosen.status # "ok" THEN [status |-> chosen.status]
        ELSE IF rejected.status # "ok" THEN [status |-> rejected.status]
        ELSE [status |-> "ok", prompt_length |-> prompt_length,
              chosen |-> chosen.sums, rejected |-> rejected.sums]

----------------------------------------------------------------------------
(* Specification of the DPO data path: the pairs of a dataset are collated *)
(* into one micro-batch, and the log-probabilities are computed.           *)

\* Numbers of pairs in a micro-batch (micro_batch_size).
BatchSizes == {1, 2}

DpoPairs == [prompt : Strings(DpoChars), chosen : Strings(DpoChars),
             rejected : Strings(DpoChars)]

DpoInit ==
    /\ dpo_max \in 1..DataMaxSeqLength
    /\ pairs \in UNION {Tensors(DpoPairs, n) : n \in BatchSizes}
    /\ batch = NotCalled
    /\ logps = NotCalled

DpoIdle ==
    /\ dpo_max = 0
    /\ pairs = <<>>
    /\ batch = NotCalled
    /\ logps = NotCalled

NextBatch ==
    /\ batch = NotCalled
    /\ batch' = Collate([r \in DOMAIN pairs |-> DPOGetItem(pairs[r], dpo_max)])
    /\ UNCHANGED <<dpo_max, pairs, logps>>
    /\ UNCHANGED otherThanDpo

ComputeLogProbs ==
    /\ batch # NotCalled
    /\ logps = NotCalled
    /\ logps' = BatchLogProbs(batch, dpo_max)
    /\ UNCHANGED <<dpo_max, pairs, batch>>
    /\ UNCHANGED otherThanDpo

----------------------------------------------------------------------------
(* dpo.py: dpo_loss                                                        *)
(*                                                                         *)
(* Fixed point: a log-probability is an integer, beta and label_smoothing  *)
(* are in tenths, so a reward and a margin ("logits") are in tenths; the   *)
(* value of logsigmoid is in millionths, and a loss in ten-millionths.     *)

\* log(1 + exp(-a / 10)) in millionths, rounded, for a = 0..100.
Log1pExpNeg ==
    <<
      693147, 644397, 598139, 554355, 513015, 474077, 437488, 403186,
      371101, 341154, 313262, 287335, 263282, 241008, 220417, 201413,
      183901, 167786, 152978, 139387, 126928, 115520, 105083, 95545,
      86836, 78890, 71645, 65044, 59033, 53563, 48587, 44064,
      39953, 36219, 32828, 29750, 26957, 24423, 22124, 20040,
      18150, 16437, 14884, 13477, 12203, 11048, 10002, 9054,
      8196, 7419, 6715, 6078, 5501, 4979, 4506, 4078,
      3691, 3340, 3023, 2736, 2476, 2240, 2027, 1835,
      1660, 1502, 1359, 1230, 1113, 1007, 911, 825,
      746, 675, 611, 553, 500, 453, 410, 371,
      335, 303, 275, 248, 225, 203, 184, 167,
      151, 136, 123, 112, 101, 91, 83, 75,
      68, 61, 55, 50, 45
    >>

\* -F.logsigmoid(x), x in tenths: max(-x, 0) + log1p(exp(-|x|)), the form
\* torch evaluates.
NegLogSigmoid(x) ==
    Max(0 - x, 0) * 100000 + Log1pExpNeg[(IF x < 0 THEN 0 - x ELSE x) + 1]

RECURSIVE TSum(_, _)
\* The sum of the first n entries of tensor t.
TSum(t, n) == IF n = 0 THEN 0 ELSE t[n - 1] + TSum(t, n - 1)

\* losses.mean()
TMean(t) == TSum(t, TLen(t)) \div TLen(t)

\* dpo_loss, lines 95-101: the loss of one margin.
ExampleLoss(logit, smoothing) ==
    IF smoothing > 0
    THEN NegLogSigmoid(logit) * (10 - smoothing)
            + NegLogSigmoid(0 - logit) * smoothing
    ELSE NegLogSigmoid(logit) * 10

DpoLoss_ChosenOnly(in, b, smoothing) ==
    LET logits == [r \in DOMAIN in.policy_chosen |->
                      b * (in.policy_chosen[r] - in.ref_chosen[r])]
        losses == [r \in DOMAIN logits |-> ExampleLoss(logits[r], smoothing)]
    IN  [status |-> "ok", logits |-> logits, value |-> TMean(losses)]
DpoLoss_Ascent(in, b, smoothing) ==
    LET logits == [r \in DOMAIN in.policy_chosen |->
                      b * (in.policy_rejected[r] - in.ref_rejected[r])
                      - b * (in.policy_chosen[r] - in.ref_chosen[r])]
        losses == [r \in DOMAIN logits |-> ExampleLoss(logits[r], smoothing)]
    IN  [status |-> "ok", logits |-> logits, value |-> TMean(losses)]
\* dpo_loss
DpoLoss(in, b, smoothing) ==
    LET chosen_rewards   == [r \in DOMAIN in.policy_chosen |->
                                b * (in.policy_chosen[r] - in.ref_chosen[r])]
        rejected_rewards == [r \in DOMAIN in.policy_chosen |->
                                b * (in.policy_rejected[r] - in.ref_rejected[r])]
        logits == [r \in DOMAIN chosen_rewards |->
                      chosen_rewards[r] - rejected_rewards[r]]
        losses == [r \in DOMAIN logits |-> ExampleLoss(logits[r], smoothing)]
    IN  [status |-> "ok", logits |-> logits, value |-> TMean(losses)]

----------------------------------------------------------------------------
(* Specification of the loss: dpo_loss is called on a batch of            *)
(* log-probabilities, and again after the policy's chosen log-probability *)
(* of one example has risen by one, everything else held fixed.           *)

\* The policy's log-probabilities are -MaxLogp..0.
MaxLogp == 3
\* Log-probabilities of the reference model.
RefLogps == {-2, -1}
\* Values of beta, in tenths: 0.1, 0.5, 1.0.
Betas == {1, 5, 10}
\* Values of label_smoothing, in tenths: -0.1, 0, 0.2.
LabelSmoothings == {-1, 0, 2}

LossInputs(n) ==
    [policy_chosen   : Tensors((0 - MaxLogp)..0, n),
     policy_rejected : Tensors((0 - MaxLogp)..0, n),
     ref_chosen      : Tensors(RefLogps, n),
     ref_rejected    : Tensors(RefLogps, n)]

LossInit ==
    /\ loss_in \in UNION {LossInputs(n) : n \in BatchSizes}
    /\ beta \in Betas
    /\ label_smoothing \in LabelSmoothings
    /\ loss_out = NotCalled
    /\ loss_prev = NotCalled

LossIdle ==
    /\ loss_in = <<>>
    /\ beta = 0
    /\ label_smoothing = 0
    /\ loss_out = NotCalled
    /\ loss_prev = NotCalled

CallDpoLoss ==
    /\ loss_out = NotCalled
    /\ loss_out' = DpoLoss(loss_in, beta, label_smoothing)
    /\ UNCHANGED <<loss_in, beta, label_smoothing, loss_prev>>
    /\ UNCHANGED otherThanLoss

RaiseChosen ==
    /\ loss_out # NotCalled
    /\ \E r \in DOMAIN loss_in.policy_chosen :
          /\ loss_in.policy_chosen[r] < 0
          /\ loss_in' = [loss_in EXCEPT !.policy_chosen[r] = @ + 1]
    /\ loss_prev' = [status |-> "ok", in |-> loss_in, out |-> loss_out]
    /\ loss_out' = DpoLoss(loss_in', beta, label_smoothing)
    /\ UNCHANGED <<beta, label_smoothing>>
    /\ UNCHANGED otherThanLoss

----------------------------------------------------------------------------
(* architecture.py: the shapes of a forward call.                          *)
(*                                                                         *)
(* A shape is the sequence of a tensor's sizes.  An operation that raises  *)
(* on its operands' shapes gives ShapeError, and so does every operation   *)
(* applied to ShapeError.                                                  *)

ShapeError == <<-1>>

RECURSIVE Numel(_)
Numel(sh) == IF sh = <<>> THEN 1 ELSE Head(sh) * Numel(Tail(sh))

\* sh[:-k]: the shape without its last k sizes; sh[-k]: the k-th from the end.
DropLast(sh, k) == SubSeq(sh, 1, Len(sh) - k)
FromEnd(sh, k) == sh[Len(sh) + 1 - k]

\* Broadcasting of two shapes, aligned at the end: two sizes go together
\* when they are equal or one of them is 1.
BroadcastShape(a, b) ==
    IF a = ShapeError \/ b = ShapeError THEN ShapeError
    ELSE LET n == Max(Len(a), Len(b))
             da(i) == IF i <= Len(a) THEN FromEnd(a, i) ELSE 1
             db(i) == IF i <= Len(b) THEN FromEnd(b, i) ELSE 1
         IN  IF \E i \in 1..n : da(i) # db(i) /\ da(i) # 1 /\ db(i) # 1
             THEN ShapeError
             ELSE [j \in 1..n |->
                     LET i == n + 1 - j
                     IN  IF da(i) = 1 THEN db(i) ELSE da(i)]

\* torch.matmul of two tensors of two dimensions or more: the inner sizes
\* must agree, the leading sizes broadcast.
MatmulShape(a, b) ==
    IF a = ShapeError \/ b = ShapeError THEN ShapeError
    ELSE IF FromEnd(a, 1) # FromEnd(b, 2) THEN ShapeError
    ELSE LET lead == BroadcastShape(DropLast(a, 2), DropLast(b, 2))
         IN  IF lead = ShapeError THEN ShapeError
             ELSE lead \o <<FromEnd(a, 2), FromEnd(b, 1)>>

\* nn.Linear(in_features, out_features, bias=False)
LinearShape(sh, in_features, out_features) ==
    IF sh = ShapeError \/ FromEnd(sh, 1) # in_features THEN ShapeError
    ELSE DropLast(sh, 1) \o <<out_features>>

\* tensor.view(*sizes): the number of elements is kept.
ViewShape(sh, sizes) ==
    IF sh = ShapeError \/ Numel(sh) # Numel(sizes) THEN ShapeError ELSE sizes

\* tensor.view(*sizes, -1) and tensor.reshape(*sizes, -1, *tail): the size
\* left open is inferred, when the sizes given are not zero and divide the
\* number of elements.
ViewInferShape(sh, sizes, tail) ==
    IF sh = ShapeError THEN ShapeError
    ELSE LET given == Numel(sizes) * Numel(tail)
         IN  IF given > 0 /\ Numel(sh) % given = 0
             THEN sizes \o <<Numel(sh) \div given>> \o tail
             ELSE ShapeError

\* tensor.transpose(1, 2) of a tensor of four dimensions, and
\* tensor.transpose(-2, -1).
Transpose12(sh) ==
    IF sh = ShapeError THEN ShapeError ELSE <<sh[1], sh[3], sh[2], sh[4]>>
TransposeLast(sh) ==
    IF sh = ShapeError THEN ShapeError
    ELSE DropLast(sh, 2) \o <<FromEnd(sh, 1), FromEnd(sh, 2)>>

\* ModelConfig.head_dim and ModelConfig.kv_repeat
HeadDim(config) == config.d_model \div config.n_heads
KvRepeat(config) == config.n_heads \div config.n_kv_heads

\* precompute_rope_freqs(dim, max_len): one row a position, one column for
\* each of arange(0, dim, 2).
RopeFreqsShape(dim, max_len) == <<max_len, (dim + 1) \div 2>>

\* freqs[:xq.shape[-2], :]
RopeSlice_Unsliced(freqs, seq_len) == freqs
RopeSlice(freqs, seq_len) == <<Min(seq_len, freqs[1]), freqs[2]>>

\* apply_rope, for one of xq and xk: the last dimension is paired into
\* complex numbers, multiplied by the table sliced to xq's sequence length
\* and unsqueezed twice, and flattened back.
ApplyRopeShape(x, xq, freqs) ==
    IF x = ShapeError \/ xq = ShapeError THEN ShapeError
    ELSE LET paired == ViewInferShape(x, DropLast(x, 1), <<2>>)
             table  == <<1, 1>> \o RopeSlice(freqs, FromEnd(xq, 2))
         IN  IF paired = ShapeError THEN ShapeError
             ELSE LET rotated == BroadcastShape(DropLast(paired, 1), table)
                  IN  IF rotated = ShapeError THEN ShapeError
                      ELSE DropLast(rotated, 1) \o <<FromEnd(rotated, 1) * 2>>

\* repeat_kv
RepeatKvShape(x, n_rep) ==
    IF x = ShapeError \/ n_rep = 1 THEN x
    ELSE <<x[1], x[2] * n_rep, x[3], x[4]>>

\* GroupedQueryAttention.forward
AttentionShape(x, freqs, mask, config) ==
    IF x = ShapeError THEN ShapeError
    ELSE LET bs      == x[1]
             seq_len == x[2]
             hd      == HeadDim(config)
             q0 == Transpose12(ViewShape(
                      LinearShape(x, config.d_model, config.n_heads * hd),
                      <<bs, seq_len, config.n_heads, hd>>))
             k0 == Transpose12(ViewShape(
                      LinearShape(x, config.d_model, config.n_kv_heads * hd),
                      <<bs, seq_len, config.n_kv_heads, hd>>))
             v0 == k0
             q  == ApplyRopeShape(q0, q0, freqs)
             k  == RepeatKvShape(ApplyRopeShape(k0, q0, freqs), KvRepeat(config))
             v  == RepeatKvShape(v0, KvRepeat(config))
             attn == BroadcastShape(MatmulShape(q, TransposeLast(k)), mask)
             out  == Transpose12(MatmulShape(attn, v))
         IN  LinearShape(ViewInferShape(out, <<bs, seq_len>>, <<>>),
                         config.n_heads * hd, config.d_model)

\* RMSNorm.forward: the input times its norm (kept dimension) times the
\* weight.
RMSNormShape(x, dim) ==
    IF x = ShapeError THEN ShapeError
    ELSE BroadcastShape(BroadcastShape(x, DropLast(x, 1) \o <<1>>), <<dim>>)

\* SwiGLUFFN.forward
FFNShape(x, config) ==
    LinearShape(
        BroadcastShape(LinearShape(x, config.d_model, config.d_ff),
                       LinearShape(x, config.d_model, config.d_ff)),
        config.d_ff, config.d_model)

\* TransformerBlock.forward
BlockShape(x, freqs, mask, config) ==
    LET h == BroadcastShape(x,
                AttentionShape(RMSNormShape(x, config.d_model), freqs, mask,
                               config))
    IN  BroadcastShape(h, FFNShape(RMSNormShape(h, config.d_model), config))

RECURSIVE LayerShapes(_, _, _, _, _)
\* The shapes the n layers produce, one after the other, from the input x.
LayerShapes(x, freqs, mask, config, n) ==
    IF n = 0 THEN <<>>
    ELSE LET y == BlockShape(x, freqs, mask, config)
         IN  <<y>> \o LayerShapes(y, freqs, mask, config, n - 1)

\* SmartPlannerModel.forward, without labels.
ForwardShape(input_ids, config) ==
    LET bs      == input_ids[1]
        seq_len == input_ids[2]
    IN  IF ~(seq_len <= config.max_seq_length)
        THEN [status |-> "AssertionError"]
        ELSE LET x     == <<bs, seq_len, config.d_model>>
                 mask  == <<Min(seq_len, config.max_seq_length),
                            Min(seq_len, config.max_seq_length)>>
                 freqs == RopeFreqsShape(HeadDim(config), config.max_seq_length)
                 ys    == LayerShapes(x, freqs, mask, config, config.n_layers)
                 last  == IF ys = <<>> THEN x ELSE ys[Len(ys)]
                 logits == LinearShape(RMSNormShape(last, config.d_model),
                                       config.d_model, config.vocab_size)
             IN  IF logits = ShapeError
                 THEN [status |-> "RuntimeError"]
                 ELSE [status |-> "ok", logits |-> logits, layers |-> ys]

\* The largest batch size.
MaxBatch == 2

\* The configurations: every pair of head counts up to three on an embedding
\* width of twelve, and the configuration of the documented scenario.
ShapeConfigs ==
    [d_model : {12}, n_layers : 1..NLayers, n_heads : 1..3, n_kv_heads : 1..3,
     d_ff : {5}, vocab_size : {7}, max_seq_length : {MaxSeqLength}]
    \cup
    {[d_model |-> 8, n_layers |-> 2, n_heads |-> 2, n_kv_heads |-> 1,
      d_ff |-> 16, vocab_size |-> 16, max_seq_length |-> 8]}

ShapeInit ==
    /\ shape_cfg \in ShapeConfigs
    /\ \E bs \in 1..MaxBatch, seq_len \in 1..(shape_cfg.max_seq_length + 1) :
          shape_in = <<bs, seq_len>>
    /\ shape_out = NotCalled

ShapeIdle ==
    /\ shape_cfg = <<>>
    /\ shape_in = <<>>
    /\ shape_out = NotCalled

ForwardShapes ==
    /\ shape_out = NotCalled
    /\ shape_out' = ForwardShape(shape_in, shape_cfg)
    /\ UNCHANGED <<shape_cfg, shape_in>>
    /\ UNCHANGED otherThanShape

----------------------------------------------------------------------------
(* sft.py, dpo.py: the dataset constructors *)

\* The keys __getitem__ reads from a record.
RecordKeys(kind) ==
    IF kind = "sft" THEN {"system", "user", "assistant"}
    ELSE {"prompt", "chosen", "rejected"}

\* A line of the file: the text of a JSON object with some of the keys, or
\* a text json.loads cannot parse.
Malformed == [json |-> FALSE, record |-> <<>>]
Lines(kind) ==
    {[json |-> TRUE, record |-> [k \in K |-> "text"]] :
        K \in SUBSET RecordKeys(kind)}
    \cup {Malformed}

\* The largest number of lines in the file.
MaxLines == 2

NoDataFile == [exists |-> FALSE, lines |-> <<>>]
DataFiles(kind) ==
    {NoDataFile} \cup
    {[exists |-> TRUE, lines |-> l] :
        l \in UNION {[1..n -> Lines(kind)] : n \in 0..MaxLines}}

RECURSIVE ReadLines(_, _)
\* for line in f: record = json.loads(line); examples.append(record)
ReadLines(lines, examples) ==
    IF lines = <<>> THEN [status |-> "ok", examples |-> examples]
    ELSE IF ~Head(lines).json THEN [status |-> "JSONDecodeError"]
    ELSE ReadLines(Tail(lines), Append(examples, Head(lines).record))

\* SFTDataset.__init__ and DPODataset.__init__ (one path)
DatasetInit(file) ==
    IF file.exists THEN ReadLines(file.lines, <<>>)
    ELSE [status |-> "ok", examples |-> <<>>]

LoadInit ==
    /\ data_kind \in {"sft", "dpo"}
    /\ data_file \in DataFiles(data_kind)
    /\ dataset = NotCalled

LoadIdle ==
    /\ data_kind = "none"
    /\ data_file = NoDataFile
    /\ dataset = NotCalled

LoadDataset ==
    /\ dataset = NotCalled
    /\ dataset' = DatasetInit(data_file)
    /\ UNCHANGED <<data_kind, data_file>>
    /\ UNCHANGED otherThanLoad

----------------------------------------------------------------------------
(* Parameters and storages.                                                *)
(*                                                                         *)
(* A module attribute (a slot) holds a Parameter object; a Parameter       *)
(* object holds its data, a storage, and its gradient.  The heap is the    *)
(* sequence of the Parameter objects and the sequence of the storages, an  *)
(* object's id being its index.  A value is an integer; a gradient is the  *)
(* number of backward passes accumulated in it, 0 for None, and whether it *)
(* was scaled by clip_grad_norm_ since the last of them.                   *)

\* The state-dict keys of the model, in module order: the embedding, the
\* final norm (standing for every parameter that is not tied), the output
\* projection.
ParamOrder == <<"token_embedding.weight", "norm.weight", "output.weight">>
ParamNames == {ParamOrder[i] : i \in 1..Len(ParamOrder)}

EmptyHeap == [params |-> <<>>, storage |-> <<>>]
NoModel == <<>>

\* nn.Parameter(tensor): a new storage and a new Parameter object on it.
Alloc(h, value, device) ==
    [storage |-> Append(h.storage, [value |-> value, device |-> device]),
     params  |-> Append(h.params, [data |-> Len(h.storage) + 1,
                                   requires_grad |-> TRUE, grad |-> 0,
                                   clipped |-> FALSE])]

\* The storage behind a slot, and its value.
StorageOf(h, slots, name) == h.params[slots[name]].data
ValueOf(h, slots, name) == h.storage[StorageOf(h, slots, name)].value

\* An in-place write through a slot (normal_, copy_, the optimiser's update).
WriteThrough(h, slots, name, value) ==
    [h EXCEPT !.storage[StorageOf(h, slots, name)].value = value]

\* model.parameters(): the Parameter objects of the slots, each once.
Parameters(slots) == {slots[n] : n \in DOMAIN slots}
Storages(h, slots) == {StorageOf(h, slots, n) : n \in DOMAIN slots}

\* self.output.weight = self.token_embedding.weight
TieWeights(slots) ==
    [slots EXCEPT !["output.weight"] = slots["token_embedding.weight"]]

\* SmartPlannerModel.__init__: the embedding, the norm (ones) and the output
\* projection get a Parameter each; the output slot is tied; _init_weights
\* then writes a fresh draw into the weight of the Embedding and into the
\* weight of the Linear.
Construct(h, draws) ==
    LET h1 == Alloc(h, draws[1], "cpu")
        h2 == Alloc(h1, 1, "cpu")
        h3 == Alloc(h2, draws[2], "cpu")
        slots == TieWeights([n \in ParamNames |->
                    CASE n = "token_embedding.weight" -> Len(h1.params)
                      [] n = "norm.weight" -> Len(h2.params)
                      [] n = "output.weight" -> Len(h3.params)])
        h4 == WriteThrough(h3, slots, "token_embedding.weight", draws[3])
        h5 == WriteThrough(h4, slots, "output.weight", draws[4])
    IN  [heap |-> h5, slots |-> slots]

RECURSIVE ToDevice(_, _, _, _)
\* Module.to(device): for the Parameter of each slot from the i-th on,
\* param.data = param.data.to(device); a tensor already on the device is
\* returned as it is.
ToDevice(h, slots, device, i) ==
    IF i > Len(ParamOrder) THEN h
    ELSE LET p == slots[ParamOrder[i]]
             s == h.params[p].data
         IN  IF h.storage[s].device = device
             THEN ToDevice(h, slots, device, i + 1)
             ELSE ToDevice(
                    [storage |-> Append(h.storage,
                                    [value |-> h.storage[s].value,
                                     device |-> device]),
                     params  |-> [h.params EXCEPT ![p].data = Len(h.storage) + 1]],
                    slots, device, i + 1)

RECURSIVE LoadStateDict(_, _, _, _)
\* load_state_dict(state_dict, strict=False): each key of the model that
\* the state dict holds is copied in place into the model's parameter, in
\* module order; a key the state dict lacks is left as it is.
LoadStateDict(h, slots, state_dict, i) ==
    IF i > Len(ParamOrder) THEN h
    ELSE LET name == ParamOrder[i]
         IN  LoadStateDict(
                IF name \in DOMAIN state_dict
                THEN WriteThrough(h, slots, name, state_dict[name])
                ELSE h,
                slots, state_dict, i + 1)

\* model.state_dict(): every key with the value behind it.
StateDict(h, slots) == [n \in ParamNames |-> ValueOf(h, slots, n)]

RECURSIVE DeepCopyFrom(_, _, _, _, _)
\* copy.deepcopy(model): each Parameter object is copied once (the memo maps
\* the original to its copy), with a clone of its data; a slot whose
\* Parameter was already copied gets that copy.
DeepCopyFrom(h, slots, memo, copy, i) ==
    IF i > Len(ParamOrder) THEN [heap |-> h, slots |-> copy]
    ELSE LET name == ParamOrder[i]
             p    == slots[name]
         IN  IF p \in DOMAIN memo
             THEN DeepCopyFrom(h, slots, memo,
                               [copy EXCEPT ![name] = memo[p]], i + 1)
             ELSE LET s  == h.storage[h.params[p].data]
                      h1 == [storage |-> Append(h.storage, s),
                             params  |-> Append(h.params,
                                 [data |-> Len(h.storage) + 1,
                                  requires_grad |-> h.params[p].requires_grad,
                                  grad |-> 0, clipped |-> FALSE])]
                      q  == Len(h1.params)
                  IN  DeepCopyFrom(h1, slots,
                                   [x \in DOMAIN memo \cup {p} |->
                                       IF x = p THEN q ELSE memo[x]],
                                   [copy EXCEPT ![name] = q], i + 1)

RECURSIVE DeepCopyNoMemo(_, _, _, _)
DeepCopyNoMemo(h, slots, copy, i) ==
    IF i > Len(ParamOrder) THEN [heap |-> h, slots |-> copy]
    ELSE LET name == ParamOrder[i]
             p    == slots[name]
             h1   == [storage |-> Append(h.storage, h.storage[h.params[p].data]),
                      params  |-> Append(h.params,
                                 [data |-> Len(h.storage) + 1,
                                  requires_grad |-> h.params[p].requires_grad,
                                  grad |-> 0, clipped |-> FALSE])]
         IN  DeepCopyNoMemo(h1, slots,
                            [copy EXCEPT ![name] = Len(h1.params)], i + 1)

DeepCopy_NoMemo(h, slots) == DeepCopyNoMemo(h, slots, slots, 1)
DeepCopy_Alias(h, slots) == [heap |-> h, slots |-> slots]
DeepCopy(h, slots) == DeepCopyFrom(h, slots, <<>>, slots, 1)

\* for param in model.parameters(): param.requires_grad = False
Freeze(h, slots) ==
    [h EXCEPT !.params = [p \in DOMAIN h.params |->
        IF p \in Parameters(slots)
        THEN [h.params[p] EXCEPT !.requires_grad = FALSE]
        ELSE h.params[p]]]

\* loss.backward(): the loss is computed from the policy's parameters (the
\* reference's calls run under no_grad), and each of them that requires a
\* gradient accumulates one.
Backward(h, slots) ==
    [h EXCEPT !.params = [p \in DOMAIN h.params |->
        IF p \in Parameters(slots) /\ h.params[p].requires_grad
        THEN [h.params[p] EXCEPT !.grad = @ + 1, !.clipped = FALSE]
        ELSE h.params[p]]]

\* torch.nn.utils.clip_grad_norm_(parameters, max_norm): the gradients of
\* the parameters that have one are scaled in place.
ClipGradNorm_Skipped(h, ps) == h
ClipGrads_ScalesData(h, ps) ==
    [h EXCEPT !.storage = [s \in DOMAIN h.storage |->
        IF \E p \in ps : h.params[p].data = s /\ h.params[p].grad > 0
        THEN [h.storage[s] EXCEPT !.value = @ + 1]
        ELSE h.storage[s]]]
ClipGrads(h, ps) ==
    [h EXCEPT !.params = [p \in DOMAIN h.params |->
        IF p \in ps /\ h.params[p].grad > 0
        THEN [h.params[p] EXCEPT !.clipped = TRUE]
        ELSE h.params[p]]]

\* optimizer.step(): each parameter of the optimiser that has a gradient is
\* updated in place.
OptimizerStep(h, ps) ==
    [h EXCEPT !.storage = [s \in DOMAIN h.storage |->
        IF \E p \in ps : h.params[p].data = s /\ h.params[p].grad > 0
        THEN [h.storage[s] EXCEPT !.value = @ + 1]
        ELSE h.storage[s]]]

\* optimizer.zero_grad(): the gradients of the optimiser's parameters are
\* set to None.
ZeroGrad_Kept(h, ps) == h
ZeroGrad(h, ps) ==
    [h EXCEPT !.params = [p \in DOMAIN h.params |->
        IF p \in ps
        THEN [h.params[p] EXCEPT !.grad = 0, !.clipped = FALSE]
        ELSE h.params[p]]]

----------------------------------------------------------------------------
(* pretrain.py, sft.py, dpo.py: train *)

\* The largest total_steps and gradient_accumulation_steps configured.
MaxSteps == 3
MaxAccum == 2
\* Values of save_every_steps.
SaveEvery == {1, 2}
\* Values a fresh draw of torch.nn.init.normal_ takes.
InitVals == {0, 1}
\* The stages, and the total_steps of each: pretraining also runs long
\* enough for its step numbers to take two digits.
Stages == {"pretrain", "sft", "dpo"}
TotalSteps(st) ==
    IF st = "pretrain" THEN 0..MaxSteps \cup {10} ELSE 0..MaxSteps
\* The checkpoint at load_from: none, one saved from a tied model, one whose
\* two keys hold different values, one torch.load cannot read.
NoFile == [exists |-> FALSE]
Unreadable == [exists |-> TRUE, readable |-> FALSE]
Checkpoints ==
    {NoFile, Unreadable} \cup
    {[exists |-> TRUE, readable |-> TRUE,
      model_state_dict |-> [n \in ParamNames |->
          CASE n = "token_embedding.weight" -> 5
            [] n = "norm.weight" -> 7
            [] n = "output.weight" -> v]] : v \in {5, 6}}
\* What an earlier run left in the checkpoint directory: nothing; its
\* final.pt and the latest link to it; a latest link whose target is gone.
EarlierFiles ==
    {{},
     {[name |-> "final", step |-> 0, model_state_dict |-> <<>>, config |-> <<>>],
      [name |-> "latest", target |-> "final"]},
     {[name |-> "latest", target |-> "gone"]}}

\* cos(pi * k / 120), in millionths, for k = 0..120.
CosTable ==
    <<
       1000000, 999657, 998630, 996917, 994522, 991445, 987688, 983255,
       978148, 972370, 965926, 958820, 951057, 942641, 933580, 923880,
       913545, 902585, 891007, 878817, 866025, 852640, 838671, 824126,
       809017, 793353, 777146, 760406, 743145, 725374, 707107, 688355,
       669131, 649448, 629320, 608761, 587785, 566406, 544639, 522499,
       500000, 477159, 453990, 430511, 406737, 382683, 358368, 333807,
       309017, 284015, 258819, 233445, 207912, 182236, 156434, 130526,
       104528, 78459, 52336, 26177, 0, -26177, -52336, -78459,
       -104528, -130526, -156434, -182236, -207912, -233445, -258819, -284015,
       -309017, -333807, -358368, -382683, -406737, -430511, -453990, -477159,
       -500000, -522499, -544639, -566406, -587785, -608761, -629320, -649448,
       -669131, -688355, -707107, -725374, -743145, -760406, -777146, -793353,
       -809017, -824126, -838671, -852640, -866025, -878817, -891007, -902585,
       -913545, -923880, -933580, -942641, -951057, -958820, -965926, -972370,
       -978148, -983255, -987688, -991445, -994522, -996917, -998630, -999657,
       -1000000
    >>

\* cos(pi * num / den), in millionths.
CosPi(num, den) == CosTable[((120 * num) \div den) + 1]

\* get_lr(step, config) of pretrain.py, and the schedule sft.py computes in
\* line; the rates of the configuration are integers, the result is in
\* millionths of their unit.
GetLr(st, config) ==
    LET warmup == config.warmup_steps
        total  == config.total_steps
    IN  IF st < warmup
        THEN (config.lr * st * 1000000) \div warmup
        ELSE config.min_lr * 1000000
             + ((config.lr - config.min_lr)
                * (1000000 + CosPi(st - warmup, total - warmup))) \div 2

RECURSIVE Digits(_)
\* The decimal digits of n, as character codes: str(n).
Digits(n) ==
    IF n < 10 THEN <<48 + n>> ELSE Append(Digits(n \div 10), 48 + (n % 10))

\* f"step_{step}.pt", as character codes.
StepFileName(k) == <<115, 116, 101, 112, 95>> \o Digits(k) \o <<46, 112, 116>>

\* a < b for two strings (and for two paths of one directory).
StrLess(a, b) ==
    LET n == Min(Len(a), Len(b))
        differ == {i \in 1..n : a[i] # b[i]}
    IN  IF differ = {} THEN Len(a) < Len(b)
        ELSE LET d == CHOOSE i \in differ : \A j \in differ : i <= j
             IN  a[d] < b[d]

RECURSIVE SortedSteps(_)
\* sorted(checkpoint_dir.glob("step_*.pt")): the step numbers of the
\* snapshots, in the order of their file names; positions from 0.
SortedSteps(ks) ==
    IF ks = {} THEN <<>>
    ELSE LET m == CHOOSE x \in ks : \A y \in ks \ {x} :
                      StrLess(StepFileName(x), StepFileName(y))
         IN  <<m>> \o SortedSteps(ks \ {m})

StepsOf(fs) == {f.step : f \in {g \in fs : g.name = "step"}}

\* for old_ckpt in ckpts[:-keep_n]: old_ckpt.unlink()
Prune(fs, keep_n) ==
    LET sorted == SortedSteps(StepsOf(fs))
        ckpts  == [i \in 0..(Len(sorted) - 1) |-> sorted[i + 1]]
        old    == PySliceTo(ckpts, 0 - keep_n)
        gone   == {old[i] : i \in DOMAIN old}
    IN  {f \in fs : ~(f.name = "step" /\ f.step \in gone)}

\* A Python string as the model's text: positions from 0.
Str(codes) == [k \in 0..(Len(codes) - 1) |-> codes[k + 1]]

\* The records the data files of dpo.train can hold: a pair without a
\* prompt ("chosen": "a", "rejected": "aa") and the same pair with the
\* prompt "a".  A file set is the set of its records, none included.
PreferenceRecords ==
    {[prompt |-> Str(pr), chosen |-> Str(<<97>>), rejected |-> Str(<<97, 97>>)]
        : pr \in {<<>>, <<97>>}}
PreferenceFiles == SUBSET PreferenceRecords

\* dpo.py 174-180: the pairs of the dataset; the dummy pair
\* {"prompt": "test", "chosen": "good", "rejected": "bad"} when it is empty.
DummyPairs ==
    {[prompt   |-> Str(<<116, 101, 115, 116>>),
      chosen   |-> Str(<<103, 111, 111, 100>>),
      rejected |-> Str(<<98, 97, 100>>)]}
TrainPairs(data) == IF data = {} THEN DummyPairs ELSE data

\* dpo.py 214-234: the four get_log_probs calls on the micro-batch whose
\* first pair is the given one (the reference's calls are the policy's on
\* the same arguments); the model's max_seq_length is MaxSeqLength.
DpoForward(pair) ==
    BatchLogProbs(Collate([r \in 0..0 |-> DPOGetItem(pair, MaxSeqLength)]),
                  MaxSeqLength)

\* The pairs on which, as the first of a micro-batch, get_log_probs raises.
RaisingPairs ==
    {pair \in PreferenceRecords \cup DummyPairs :
        DpoForward(pair).status # "ok"}

TrainInit ==
    /\ stage \in Stages
    /\ pc = "construct"
    /\ step = 0
    /\ micro_step = 0
    /\ lr = 0
    /\ log = {}
    /\ cfg \in [total_steps : TotalSteps(stage),
                gradient_accumulation_steps : 1..MaxAccum,
                save_every_steps : SaveEvery,
                keep_last_n : {1, 2},
                warmup_steps : {0, 2},
                lr : {600},
                min_lr : {60}]
    /\ cuda \in BOOLEAN
    /\ load_from \in IF stage = "pretrain" THEN {NoFile} ELSE Checkpoints
    /\ heap = EmptyHeap
    /\ policy = NoModel
    /\ ref = NoModel
    /\ opt_params = {}
    /\ files \in EarlierFiles
    /\ earlier = files
    /\ cloned_values = <<>>
    /\ clones = 0
    /\ train_data \in IF stage = "dpo" THEN PreferenceFiles ELSE {{}}

TrainIdle ==
    /\ stage = "none"
    /\ pc = "idle"
    /\ step = 0
    /\ micro_step = 0
    /\ lr = 0
    /\ log = {}
    /\ cfg = <<>>
    /\ cuda = FALSE
    /\ load_from = NoFile
    /\ heap = EmptyHeap
    /\ policy = NoModel
    /\ ref = NoModel
    /\ opt_params = {}
    /\ files = {}
    /\ earlier = {}
    /\ cloned_values = <<>>
    /\ clones = 0
    /\ train_data = {}

\* model = SmartPlannerModel(model_config).to(device)
\* (pretrain.py 78-79, sft.py 85-86, dpo.py 142-143); pretraining goes on to
\* its optimiser, the other stages to the checkpoint at load_from.
ConstructPolicy ==
    /\ pc = "construct"
    /\ \E draws \in [1..4 -> InitVals] :
          LET made == Construct(heap, draws)
          IN  /\ policy' = made.slots
              /\ heap' = IF cuda
                         THEN ToDevice(made.heap, made.slots, "cuda", 1)
                         ELSE made.heap
    /\ pc' = IF stage = "pretrain" THEN "optimizer" ELSE "load"
    /\ UNCHANGED <<step, cfg, cuda, load_from, ref, opt_params, files,
                   cloned_values, clones, stage, earlier, micro_step, lr, log>>
    /\ UNCHANGED otherThanTrain

\* sft.py 88-94, dpo.py 145-149: the checkpoint at load_from, when the file
\* exists, is read by torch.load (which raises on a file it cannot read)
\* and loaded, and a line is printed; when it does not exist, sft.py prints
\* that it starts from random weights and dpo.py prints nothing.
LoadCheckpoint ==
    /\ pc = "load"
    /\ IF load_from.exists /\ ~load_from.readable
       THEN /\ pc' = "raised_load"
            /\ UNCHANGED <<heap, log>>
       ELSE /\ heap' = IF load_from.exists
                       THEN LoadStateDict(heap, policy,
                                          load_from.model_state_dict, 1)
                       ELSE heap
            /\ log' = IF load_from.exists THEN log \cup {"loaded"}
                      ELSE IF stage = "sft" THEN log \cup {"random_weights"}
                      ELSE log
            /\ pc' = IF stage = "dpo" THEN "clone" ELSE "optimizer"
    /\ UNCHANGED <<step, cfg, cuda, load_from, policy, ref, opt_params, files,
                   cloned_values, clones, stage, earlier, micro_step, lr>>
    /\ UNCHANGED otherThanTrain

\* dpo.py 152-155: the reference model is a deep copy, frozen.
CloneReference ==
    /\ pc = "clone"
    /\ LET made == DeepCopy(heap, policy)
       IN  /\ ref' = made.slots
           /\ heap' = Freeze(made.heap, made.slots)
    /\ cloned_values' = StateDict(heap, policy)
    /\ clones' = clones + 1
    /\ pc' = "optimizer"
    /\ UNCHANGED <<step, cfg, cuda, load_from, policy, opt_params, files,
                   stage, earlier, micro_step, lr, log>>
    /\ UNCHANGED otherThanTrain

\* AdamW(model.parameters(), lr=opt_cfg["lr"], ...)
\* (pretrain.py 83-90, sft.py 99-106, dpo.py 160-167)
OptimizerParameters == Parameters(policy)

MakeOptimizer ==
    /\ pc = "optimizer"
    /\ opt_params' = OptimizerParameters
    /\ lr' = cfg.lr * 1000000
    /\ pc' = "loop"
    /\ UNCHANGED <<step, cfg, cuda, load_from, heap, policy, ref, files,
                   cloned_values, clones, stage, earlier, micro_step, log>>
    /\ UNCHANGED otherThanTrain

\* while step < total_steps.  pretrain.py 127-130 zeroes the gradients and
\* starts the micro_step loop; sft.py 148-152 and dpo.py 208-212 take the
\* next batch of the dataloader (never empty: dummy data stand in for a
\* missing file).
LoopHead ==
    /\ pc = "loop"
    /\ pc' = IF step < cfg.total_steps THEN "forward" ELSE "final"
    /\ IF stage = "pretrain" /\ step < cfg.total_steps
       THEN /\ heap' = ZeroGrad(heap, opt_params)
            /\ micro_step' = 0
       ELSE UNCHANGED <<heap, micro_step>>
    /\ UNCHANGED <<step, cfg, cuda, load_from, policy, ref, opt_params,
                   files, cloned_values, clones, stage, earlier, lr, log>>
    /\ UNCHANGED otherThanTrain

\* The forward pass of the micro-batch and its loss (pretrain.py 132-142,
\* sft.py 154-159, dpo.py 214-243).  pretrain.py's random tokens and
\* sft.py's items have the model's max_seq_length: forward returns.  In
\* dpo.py the shuffled dataloader gives any pair of the dataset as the
\* first of the batch, and an exception of get_log_probs ends train().
MicroBatchForward ==
    /\ pc = "forward"
    /\ IF stage = "dpo"
       THEN \E pair \in TrainPairs(train_data) :
               pc' = IF pair \in RaisingPairs THEN "raised_forward"
                     ELSE "backward"
       ELSE pc' = "backward"
    /\ UNCHANGED <<step, cfg, cuda, load_from, heap, policy, ref, opt_params,
                   files, cloned_values, clones, stage, earlier, micro_step, lr, log>>
    /\ UNCHANGED otherThanTrain

\* loss.backward(), and whether the accumulation window ends: in
\* pretrain.py 130-145 when range(grad_accum) is exhausted, in sft.py
\* 161-164 and dpo.py 245-248 when (step + 1) % grad_accum == 0.
MicroBatchBackward ==
    /\ pc = "backward"
    /\ heap' = Backward(heap, policy)
    /\ IF stage = "pretrain"
       THEN /\ micro_step' = micro_step + 1
            /\ pc' = IF micro_step + 1 < cfg.gradient_accumulation_steps
                     THEN "forward" ELSE "clip"
       ELSE /\ micro_step' = micro_step
            /\ pc' = IF (step + 1) % cfg.gradient_accumulation_steps = 0
                     THEN "clip" ELSE "advance"
    /\ UNCHANGED <<step, cfg, cuda, load_from, policy, ref, opt_params, files,
                   cloned_values, clones, stage, earlier, lr, log>>
    /\ UNCHANGED otherThanTrain

\* clip_grad_norm_(model.parameters(), ...) (pretrain.py 148-151, sft.py
\* 165-168, dpo.py 249-252); dpo.py goes on to optimizer.step(), the other
\* stages to the learning rate.
ClipGradNorm ==
    /\ pc = "clip"
    /\ heap' = ClipGrads(heap, Parameters(policy))
    /\ pc' = IF stage = "dpo" THEN "opt_step" ELSE "set_lr"
    /\ UNCHANGED <<step, cfg, cuda, load_from, policy, ref, opt_params,
                   files, cloned_values, clones, stage, earlier, micro_step, lr, log>>
    /\ UNCHANGED otherThanTrain

\* pretrain.py 154-156, sft.py 170-182: the rate of the schedule at the
\* step counter is written to the optimiser's parameter groups.
SetLr ==
    /\ pc = "set_lr"
    /\ lr' = GetLr(step, cfg)
    /\ pc' = "opt_step"
    /\ UNCHANGED <<step, cfg, cuda, load_from, heap, policy, ref, opt_params,
                   files, cloned_values, clones, stage, earlier, micro_step, log>>
    /\ UNCHANGED otherThanTrain

\* optimizer.step() (pretrain.py 158, sft.py 184, dpo.py 253)
OptStep ==
    /\ pc = "opt_step"
    /\ heap' = OptimizerStep(heap, opt_params)
    /\ pc' = IF stage = "pretrain" THEN "advance" ELSE "zero_grad"
    /\ UNCHANGED <<step, cfg, cuda, load_from, policy, ref, opt_params, files,
                   cloned_values, clones, stage, earlier, micro_step, lr, log>>
    /\ UNCHANGED otherThanTrain

\* optimizer.zero_grad() (sft.py 185, dpo.py 254)
OptZeroGrad ==
    /\ pc = "zero_grad"
    /\ heap' = ZeroGrad(heap, opt_params)
    /\ pc' = "advance"
    /\ UNCHANGED <<step, cfg, cuda, load_from, policy, ref, opt_params, files,
                   cloned_values, clones, stage, earlier, micro_step, lr, log>>
    /\ UNCHANGED otherThanTrain

\* The record torch.save writes to step_<step>.pt: pretrain.py 179-184 and
\* sft.py 201-206 with the optimiser's state, dpo.py 278-282 without.
Snapshot(k) ==
    IF stage = "dpo"
    THEN [name |-> "step", step |-> k,
          model_state_dict |-> StateDict(heap, policy), config |-> cfg]
    ELSE [name |-> "step", step |-> k,
          model_state_dict |-> StateDict(heap, policy), config |-> cfg,
          optimizer_state_dict |-> [lr |-> lr]]

\* step += 1, the log line, and the periodic snapshot (pretrain.py 159-191,
\* sft.py 187-207, dpo.py 256-282); pretrain.py then prunes the snapshots.
\* step += 1 (pretrain.py 159, sft.py 187, dpo.py 256)
NextStep(st) == st + 1

Advance ==
    /\ pc = "advance"
    /\ step' = NextStep(step)
    /\ files' =
          IF step' % cfg.save_every_steps = 0
          THEN LET saved == {f \in files : ~(f.name = "step" /\ f.step = step')}
                            \cup {Snapshot(step')}
               IN  IF stage = "pretrain"
                   THEN Prune(saved, cfg.keep_last_n)
                   ELSE saved
          ELSE files
    /\ pc' = "loop"
    /\ UNCHANGED <<cfg, cuda, load_from, heap, policy, ref, opt_params,
                   cloned_values, clones, stage, earlier, micro_step, lr, log>>
    /\ UNCHANGED otherThanTrain

\* The record torch.save writes to final.pt.
FinalRecord ==
    [name |-> "final", step |-> step,
     model_state_dict |-> StateDict(heap, policy), config |-> cfg]

\* latest, when latest_path.exists() (a link whose target exists), is
\* unlinked; latest is then made a link to final.pt, which raises
\* FileExistsError over a link that was left in place.
LinkLatest_Kept(saved) == [files |-> saved, pc |-> "done"]
LinkLatest(saved) ==
    LET old == {f \in saved : f.name = "latest"}
        exists == \E f \in old : \E g \in saved : g.name = f.target
    IN  IF old # {} /\ ~exists
        THEN [files |-> saved, pc |-> "raised_latest"]
        ELSE [files |-> (saved \ old)
                        \cup {[name |-> "latest", target |-> "final"]},
              pc |-> "done"]

\* final.pt is written and latest is linked to it
\* (pretrain.py 193-205, sft.py 209-220, dpo.py 284-295).
SaveFinal ==
    /\ pc = "final"
    /\ LET linked == LinkLatest({f \in files : f.name # "final"}
                                \cup {FinalRecord})
       IN  /\ files' = linked.files
           /\ pc' = linked.pc
    /\ UNCHANGED <<step, cfg, cuda, load_from, heap, policy, ref, opt_params,
                   cloned_values, clones, stage, earlier, micro_step, lr, log>>
    /\ UNCHANGED otherThanTrain

----------------------------------------------------------------------------
(* A run of train() that is aborted, and train() started again *)

MaxRuns == 1

LoopPcs == {"loop", "forward", "backward", "clip", "set_lr", "opt_step",
            "zero_grad", "advance"}

\* What an aborted run and the next one share is the checkpoint directory.
otherThanRun == <<fwVars, sftVars, dpoVars, lossVars, shapeVars, loadVars,
    dataVars, callVars>>

\* What a kill inside torch.save leaves of step_<k>.pt: a file that is not
\* a checkpoint.
TruncatedSnapshot(k) == [name |-> "step", step |-> k, truncated |-> TRUE]

\* The directory a kill can leave inside the statements Advance models
\* (pretrain.py 177-191, sft.py 199-207, dpo.py 276-282): as it was;
\* step_<k>.pt opened and partly written; step_<k>.pt written; and, in
\* pretrain.py, the first j of the old snapshots unlinked, in the order of
\* the sorted list.
KilledInAdvance ==
    LET k      == NextStep(step)
        others == {f \in files : ~(f.name = "step" /\ f.step = k)}
        saved  == others \cup {Snapshot(k)}
        sorted == SortedSteps(StepsOf(saved))
        ckpts  == [i \in 0..(Len(sorted) - 1) |-> sorted[i + 1]]
        old    == PySliceTo(ckpts, 0 - cfg.keep_last_n)
    IN  IF k % cfg.save_every_steps # 0 THEN {files}
        ELSE {files, others \cup {TruncatedSnapshot(k)}, saved}
             \cup IF stage = "pretrain"
                  THEN {{f \in saved :
                            ~(f.name = "step"
                              /\ f.step \in {old[i] : i \in 0..(j - 1)})}
                           : j \in 0..TLen(old)}
                  ELSE {}

\* The process is killed inside the training loop (pretrain.py 127-191,
\* sft.py 148-207, dpo.py 208-282), before or after any of its statements:
\* its memory - the step counter, the models, the optimiser - is gone, the
\* files it wrote stay.
Abort ==
    /\ pc \in LoopPcs
    /\ files' \in IF pc = "advance" THEN KilledInAdvance ELSE {files}
    /\ pc' = "aborted"
    /\ step' = 0
    /\ micro_step' = 0
    /\ lr' = 0
    /\ heap' = EmptyHeap
    /\ policy' = NoModel
    /\ ref' = NoModel
    /\ opt_params' = {}
    /\ UNCHANGED <<cfg, cuda, load_from, cloned_values, clones, stage,
                   earlier, log, runs>>
    /\ UNCHANGED otherThanRun

\* train(config_path) is called again with the same configuration
\* (pretrain.py 64-120, sft.py 74-144, dpo.py 130-204): a new model is
\* constructed, load_from is the configured checkpoint, step = 0.
Restart ==
    /\ pc = "aborted"
    /\ runs < MaxRuns
    /\ runs' = runs + 1
    /\ pc' = "construct"
    /\ earlier' = files
    /\ log' = {}
    /\ UNCHANGED <<step, cfg, cuda, load_from, heap, policy, ref, opt_params,
                   files, cloned_values, clones, stage, micro_step, lr>>
    /\ UNCHANGED otherThanRun

----------------------------------------------------------------------------
(* architecture.py: repeat_kv *)

MaxKvHeads == 2
MaxRep == 3
MaxKvSeq == 2
MaxHeadDim == 2

\* A contiguous tensor: its shape and its elements in row-major order,
\* positions from 0.
At4(x, b, h, s, d) ==
    x.data[((b * x.shape[2] + h) * x.shape[3] + s) * x.shape[4] + d]

\* x[:, :, None, :, :].expand(bs, n_kv_heads, n_rep, seq_len, head_dim):
\* element (b, k, r, s, d) of the view is element (b, k, s, d) of x.
\* .reshape(bs, n_kv_heads * n_rep, seq_len, head_dim) lays the elements of
\* the view out in row-major order under the new shape.
RepeatKv_Tiled(x, n_rep) ==
    LET n_kv_heads == x.shape[2]
        shape == <<x.shape[1], n_kv_heads * n_rep, x.shape[3], x.shape[4]>>
    IN  [shape |-> shape,
         data  |-> [i \in 0..(Numel(shape) - 1) |->
            LET d == i % shape[4]
                s == (i \div shape[4]) % shape[3]
                h == (i \div (shape[4] * shape[3])) % shape[2]
                b == i \div (shape[4] * shape[3] * shape[2])
            IN  At4(x, b, h % n_kv_heads, s, d)]]
RepeatKv(x, n_rep) ==
    IF n_rep = 1 THEN x
    ELSE
    LET bs         == x.shape[1]
        n_kv_heads == x.shape[2]
        seq_len    == x.shape[3]
        head_dim   == x.shape[4]
        expanded   == <<bs, n_kv_heads, n_rep, seq_len, head_dim>>
        shape      == <<bs, n_kv_heads * n_rep, seq_len, head_dim>>
    IN  [shape |-> shape,
         data  |-> [i \in 0..(Numel(expanded) - 1) |->
            LET d == i % head_dim
                s == (i \div head_dim) % seq_len
                r == (i \div (head_dim * seq_len)) % n_rep
                k == (i \div (head_dim * seq_len * n_rep)) % n_kv_heads
                b == i \div (head_dim * seq_len * n_rep * n_kv_heads)
            IN  At4(x, b, k, s, d)]]

\* The key and value tensors given to repeat_kv (GroupedQueryAttention.
\* forward, 131-133): elements that differ from one another, or a single
\* one that differs from the rest.
KvShapes ==
    {<<bs, k, s, d>> : bs \in 1..MaxBatch, k \in 1..MaxKvHeads,
                       s \in 1..MaxKvSeq, d \in 1..MaxHeadDim}
KvTensors ==
    UNION {{[shape |-> sh, data |-> [i \in 0..(Numel(sh) - 1) |-> base + i]]
               : base \in 0..1}
           \cup {[shape |-> sh,
                   data |-> [i \in 0..(Numel(sh) - 1) |->
                                IF i = j THEN 1 ELSE 0]]
               : j \in 0..(Numel(sh) - 1)}
           : sh \in KvShapes}

RepeatInit ==
    /\ args \in [fn : {"repeat_kv"}, x : KvTensors, n_rep : 1..MaxRep]
    /\ returned = NotCalled

CallRepeatKv ==
    /\ args.fn = "repeat_kv"
    /\ returned = NotCalled
    /\ returned' = [status |-> "ok", value |-> RepeatKv(args.x, args.n_rep)]
    /\ UNCHANGED <<args, runVars, dataVars>>
    /\ UNCHANGED <<fwVars, sftVars, dpoVars, lossVars, trainVars, shapeVars,
                   loadVars>>

----------------------------------------------------------------------------
(* export_gguf.py: _map_tensor_name.  Names are sequences of character    *)
(* codes.                                                                 *)

MaxLayerIndex == 11

RECURSIVE StrReplace(_, _, _)
\* s.replace(old, new): the occurrences of old, found from the left and not
\* overlapping, are replaced by new.
StrReplace(s, old, new) ==
    IF Len(s) < Len(old) THEN s
    ELSE IF SubSeq(s, 1, Len(old)) = old
    THEN new \o StrReplace(SubSeq(s, Len(old) + 1, Len(s)), old, new)
    ELSE <<s[1]>> \o StrReplace(Tail(s), old, new)

\* The replacements of _map_tensor_name (199-213), in the order they are
\* applied.
Replacements ==
    <<
       \* "token_embedding.weight" -> "token_embd.weight"
       <<<<116, 111, 107, 101, 110, 95, 101, 109, 98, 101, 100, 100, 105, 110, 103, 46, 119, 101, 105, 103, 104, 116>>,
         <<116, 111, 107, 101, 110, 95, 101, 109, 98, 100, 46, 119, 101, 105, 103, 104, 116>>>>,
       \* "layers." -> "blk."
       <<<<108, 97, 121, 101, 114, 115, 46>>,
         <<98, 108, 107, 46>>>>,
       \* ".attention." -> ".attn."
       <<<<46, 97, 116, 116, 101, 110, 116, 105, 111, 110, 46>>,
         <<46, 97, 116, 116, 110, 46>>>>,
       \* ".attention_norm." -> ".attn_norm."
       <<<<46, 97, 116, 116, 101, 110, 116, 105, 111, 110, 95, 110, 111, 114, 109, 46>>,
         <<46, 97, 116, 116, 110, 95, 110, 111, 114, 109, 46>>>>,
       \* ".ffn_norm." -> ".ffn_norm."
       <<<<46, 102, 102, 110, 95, 110, 111, 114, 109, 46>>,
         <<46, 102, 102, 110, 95, 110, 111, 114, 109, 46>>>>,
       \* ".ffn." -> ".ffn."
       <<<<46, 102, 102, 110, 46>>,
         <<46, 102, 102, 110, 46>>>>,
       \* ".wq." -> ".attn_q."
       <<<<46, 119, 113, 46>>,
         <<46, 97, 116, 116, 110, 95, 113, 46>>>>,
       \* ".wk." -> ".attn_k."
       <<<<46, 119, 107, 46>>,
         <<46, 97, 116, 116, 110, 95, 107, 46>>>>,
       \* ".wv." -> ".attn_v."
       <<<<46, 119, 118, 46>>,
         <<46, 97, 116, 116, 110, 95, 118, 46>>>>,
       \* ".wo." -> ".attn_output."
       <<<<46, 119, 111, 46>>,
         <<46, 97, 116, 116, 110, 95, 111, 117, 116, 112, 117, 116, 46>>>>,
       \* ".w1." -> ".ffn_gate."
       <<<<46, 119, 49, 46>>,
         <<46, 102, 102, 110, 95, 103, 97, 116, 101, 46>>>>,
       \* ".w2." -> ".ffn_down."
       <<<<46, 119, 50, 46>>,
         <<46, 102, 102, 110, 95, 100, 111, 119, 110, 46>>>>,
       \* ".w3." -> ".ffn_up."
       <<<<46, 119, 51, 46>>,
         <<46, 102, 102, 110, 95, 117, 112, 46>>>>,
       \* "norm.weight" -> "output_norm.weight"
       <<<<110, 111, 114, 109, 46, 119, 101, 105, 103, 104, 116>>,
         <<111, 117, 116, 112, 117, 116, 95, 110, 111, 114, 109, 46, 119, 101, 105, 103, 104, 116>>>>,
       \* "output.weight" -> "output.weight"
       <<<<111, 117, 116, 112, 117, 116, 46, 119, 101, 105, 103, 104, 116>>,
         <<111, 117, 116, 112, 117, 116, 46, 119, 101, 105, 103, 104, 116>>>>
    >>

RECURSIVE ReplaceFrom(_, _)
\* name = name.replace(...), from the i-th replacement to the last.
ReplaceFrom(name, i) ==
    IF i > Len(Replacements) THEN name
    ELSE ReplaceFrom(StrReplace(name, Replacements[i][1], Replacements[i][2]),
                     i + 1)

MapTensorName(pytorch_name) == ReplaceFrom(pytorch_name, 1)

\* The keys of SmartPlannerModel.state_dict() (architecture.py 104-107,
\* 152-154, 166-169, 193-201): the buffers are not persistent.
\* "token_embedding.weight"
TokenEmbeddingKey == <<116, 111, 107, 101, 110, 95, 101, 109, 98, 101, 100, 100, 105, 110, 103, 46, 119, 101, 105, 103, 104, 116>>
\* "norm.weight"
NormKey == <<110, 111, 114, 109, 46, 119, 101, 105, 103, 104, 116>>
\* "output.weight"
OutputKey == <<111, 117, 116, 112, 117, 116, 46, 119, 101, 105, 103, 104, 116>>
LayerSuffixes ==
    {
       \* ".attention.wq.weight"
       <<46, 97, 116, 116, 101, 110, 116, 105, 111, 110, 46, 119, 113, 46, 119, 101, 105, 103, 104, 116>>,
       \* ".attention.wk.weight"
       <<46, 97, 116, 116, 101, 110, 116, 105, 111, 110, 46, 119, 107, 46, 119, 101, 105, 103, 104, 116>>,
       \* ".attention.wv.weight"
       <<46, 97, 116, 116, 101, 110, 116, 105, 111, 110, 46, 119, 118, 46, 119, 101, 105, 103, 104, 116>>,
       \* ".attention.wo.weight"
       <<46, 97, 116, 116, 101, 110, 116, 105, 111, 110, 46, 119, 111, 46, 119, 101, 105, 103, 104, 116>>,
       \* ".ffn.w1.weight"
       <<46, 102, 102, 110, 46, 119, 49, 46, 119, 101, 105, 103, 104, 116>>,
       \* ".ffn.w2.weight"
       <<46, 102, 102, 110, 46, 119, 50, 46, 119, 101, 105, 103, 104, 116>>,
       \* ".ffn.w3.weight"
       <<46, 102, 102, 110, 46, 119, 51, 46, 119, 101, 105, 103, 104, 116>>,
       \* ".attention_norm.weight"
       <<46, 97, 116, 116, 101, 110, 116, 105, 111, 110, 95, 110, 111, 114, 109, 46, 119, 101, 105, 103, 104, 116>>,
       \* ".ffn_norm.weight"
       <<46, 102, 102, 110, 95, 110, 111, 114, 109, 46, 119, 101, 105, 103, 104, 116>>
    }
\* f"layers.{i}" + suffix
LayerKey(i, suffix) == <<108, 97, 121, 101, 114, 115, 46>> \o Digits(i) \o suffix
StateDictKeys ==
    {TokenEmbeddingKey, NormKey, OutputKey}
    \cup {LayerKey(i, sfx) : i \in 0..MaxLayerIndex, sfx \in LayerSuffixes}

MapInit ==
    /\ args \in [fn : {"_map_tensor_name"}, pytorch_name : StateDictKeys]
    /\ returned = NotCalled

CallMapTensorName ==
    /\ args.fn = "_map_tensor_name"
    /\ returned = NotCalled
    /\ returned' = [status |-> "ok", value |-> MapTensorName(args.pytorch_name)]
    /\ UNCHANGED <<args, runVars, dataVars>>
    /\ UNCHANGED <<fwVars, sftVars, dpoVars, lossVars, trainVars, shapeVars,
                   loadVars>>

----------------------------------------------------------------------------
(* scripts/shard-model.py: shard_model.  A file is the sequence of its    *)
(* bytes.                                                                 *)

MaxFileBytes == 4
MaxShardSize == 3
Bytes == {0, 1}

\* f.read(n) at position pos of a regular file: the next n bytes, or those
\* that are left.
Read_DropsPartial(f, pos, n) ==
    IF pos + n <= Len(f) THEN SubSeq(f, pos + 1, pos + n) ELSE <<>>
Read(f, pos, n) == SubSeq(f, pos + 1, Min(pos + n, Len(f)))

\* f"{shard_idx:03d}"
Pad3(n) ==
    LET ds == Digits(n)
    IN  [k \in 1..(3 - Len(ds)) |-> 48] \o ds

\* f"{stem}.shard_{shard_idx:03d}.bin", after the stem.
ShardFileName(shard_idx) ==
    <<46, 115, 104, 97, 114, 100, 95>> \o Pad3(shard_idx) \o <<46, 98, 105, 110>>

RECURSIVE ShardLoop(_, _, _, _, _, _)
\* The loop of shard_model (51-73): read, stop on an empty read, write the
\* shard, append its entry, advance offset and shard_idx.
ShardLoop(f, shard_size, shard_idx, offset, shards, written) ==
    LET data == Read(f, offset, shard_size)
    IN  IF data = <<>> THEN [shards |-> shards, written |-> written]
        ELSE ShardLoop(f, shard_size, shard_idx + 1, offset + Len(data),
                       Append(shards, [filename   |-> ShardFileName(shard_idx),
                                       offset     |-> offset,
                                       size_bytes |-> Len(data)]),
                       written \cup {[filename |-> ShardFileName(shard_idx),
                                      data     |-> data]})

RECURSIVE SumSizes(_)
SumSizes(shards) ==
    IF shards = <<>> THEN 0
    ELSE shards[1].size_bytes + SumSizes(Tail(shards))

\* shard_model(model_path, shard_size): sys.exit(1) when the path is not a
\* file; the assertion of line 77; the manifest of lines 82-89.
ShardModel(model_file, shard_size) ==
    IF ~model_file.exists THEN [status |-> "exit"]
    ELSE
    LET total_size == Len(model_file.bytes)
        done       == ShardLoop(model_file.bytes, shard_size, 0, 0, <<>>, {})
    IN  IF SumSizes(done.shards) # total_size
        THEN [status |-> "AssertionError", written |-> done.written]
        ELSE [status   |-> "ok",
              written  |-> done.written,
              manifest |-> [total_bytes      |-> total_size,
                            shard_size_bytes |-> shard_size,
                            shard_count      |-> Len(done.shards),
                            shards           |-> done.shards]]

ModelFiles ==
    {[exists |-> FALSE]}
    \cup {[exists |-> TRUE, bytes |-> b] :
              b \in UNION {[1..n -> Bytes] : n \in 0..MaxFileBytes}}

ShardInit ==
    /\ args \in [fn : {"shard_model"}, model_file : ModelFiles,
                  shard_size : 1..MaxShardSize]
    /\ returned = NotCalled

CallShardModel ==
    /\ args.fn = "shard_model"
    /\ returned = NotCalled
    /\ returned' = ShardModel(args.model_file, args.shard_size)
    /\ UNCHANGED <<args, runVars, dataVars>>
    /\ UNCHANGED <<fwVars, sftVars, dpoVars, lossVars, trainVars, shapeVars,
                   loadVars>>

----------------------------------------------------------------------------
(* Specifications *)

InitForward == FwInit /\ SftIdle /\ DpoIdle /\ LossIdle /\ TrainIdle
    /\ ShapeIdle /\ LoadIdle
    /\ RunIdle /\ CallIdle
NextForward == ForwardA \/ ForwardB
SpecForward == InitForward /\ [][NextForward]_vars

InitSFT == SftInit /\ FwIdle /\ DpoIdle /\ LossIdle /\ TrainIdle
    /\ ShapeIdle /\ LoadIdle
    /\ RunIdle /\ CallIdle
NextSFT == GetItem \/ SftForward
SpecSFT == InitSFT /\ [][NextSFT]_vars

InitDPOData == DpoInit /\ FwIdle /\ SftIdle /\ LossIdle /\ TrainIdle
    /\ ShapeIdle /\ LoadIdle
    /\ RunIdle /\ CallIdle
NextDPOData == NextBatch \/ ComputeLogProbs
SpecDPOData == InitDPOData /\ [][NextDPOData]_vars

InitLoss == LossInit /\ FwIdle /\ SftIdle /\ DpoIdle /\ TrainIdle
    /\ ShapeIdle /\ LoadIdle
    /\ RunIdle /\ CallIdle
NextLoss == CallDpoLoss \/ RaiseChosen
SpecLoss == InitLoss /\ [][NextLoss]_vars

InitDPOTrain == TrainInit /\ stage = "dpo" /\ files = {}
    /\ FwIdle /\ SftIdle /\ DpoIdle /\ LossIdle /\ ShapeIdle /\ LoadIdle
    /\ RunIdle /\ CallIdle
NextDPOTrain ==
    \/ ConstructPolicy
    \/ LoadCheckpoint
    \/ CloneReference
    \/ MakeOptimizer
    \/ LoopHead
    \/ MicroBatchForward
    \/ MicroBatchBackward
    \/ ClipGradNorm
    \/ OptStep
    \/ OptZeroGrad
    \/ Advance
    \/ SaveFinal
SpecDPOTrain == InitDPOTrain /\ [][NextDPOTrain]_vars

InitTrain == TrainInit /\ FwIdle /\ SftIdle /\ DpoIdle /\ LossIdle
    /\ ShapeIdle /\ LoadIdle
    /\ RunIdle /\ CallIdle
NextTrain ==
    \/ ConstructPolicy
    \/ LoadCheckpoint
    \/ CloneReference
    \/ MakeOptimizer
    \/ LoopHead
    \/ MicroBatchForward
    \/ MicroBatchBackward
    \/ ClipGradNorm
    \/ SetLr
    \/ OptStep
    \/ OptZeroGrad
    \/ Advance
    \/ SaveFinal
SpecTrain == InitTrain /\ [][NextTrain]_vars

\* train() is one sequential procedure: a statement that can run does run.
\* The runs start in an empty checkpoint directory, on the CPU, with
\* total_steps from 0 to MaxSteps.
InitTrainFair ==
    InitTrain /\ files = {} /\ ~cuda /\ cfg.total_steps <= MaxSteps
SpecTrainFair == InitTrainFair /\ [][NextTrain]_vars /\ WF_vars(NextTrain)

\* Pretraining and SFT, aborted and started again.
InitResume ==
    InitTrain /\ files = {} /\ ~cuda /\ cfg.total_steps <= MaxSteps
        /\ stage \in {"pretrain", "sft"}
NextResume ==
    \/ ConstructPolicy
    \/ LoadCheckpoint
    \/ MakeOptimizer
    \/ LoopHead
    \/ MicroBatchForward
    \/ MicroBatchBackward
    \/ ClipGradNorm
    \/ SetLr
    \/ OptStep
    \/ OptZeroGrad
    \/ Advance
    \/ SaveFinal
    \/ Abort
    \/ Restart
SpecResume == InitResume /\ [][NextResume]_vars

InitRepeat == RepeatInit /\ FwIdle /\ SftIdle /\ DpoIdle /\ LossIdle
    /\ TrainIdle /\ ShapeIdle /\ LoadIdle /\ RunIdle
NextRepeat == CallRepeatKv
SpecRepeat == InitRepeat /\ [][NextRepeat]_vars

InitMap == MapInit /\ FwIdle /\ SftIdle /\ DpoIdle /\ LossIdle
    /\ TrainIdle /\ ShapeIdle /\ LoadIdle /\ RunIdle
NextMap == CallMapTensorName
SpecMap == InitMap /\ [][NextMap]_vars

InitShard == ShardInit /\ FwIdle /\ SftIdle /\ DpoIdle /\ LossIdle
    /\ TrainIdle /\ ShapeIdle /\ LoadIdle /\ RunIdle
NextShard == CallShardModel
SpecShard == InitShard /\ [][NextShard]_vars

InitShape == ShapeInit /\ FwIdle /\ SftIdle /\ DpoIdle /\ LossIdle /\ TrainIdle
    /\ LoadIdle
    /\ RunIdle /\ CallIdle
NextShape == ForwardShapes
SpecShape == InitShape /\ [][NextShape]_vars

InitLoad == LoadInit /\ FwIdle /\ SftIdle /\ DpoIdle /\ LossIdle /\ TrainIdle
    /\ ShapeIdle
    /\ RunIdle /\ CallIdle
NextLoad == LoadDataset
SpecLoad == InitLoad /\ [][NextLoad]_vars

----------------------------------------------------------------------------
(* Claims about the forward pass (SpecForward) *)

Overlong(input_ids) == TLen(input_ids) > MaxSeqLength

\* C1: a call of forward whose input is longer than max_seq_length fails
\* with an error and returns no logits; logits, when returned, have one
\* entry per input position, so they are never those of a truncated prefix.
C1_OverlongInputFails ==
    \A c \in {<<input_a, result_a>>, <<input_b, result_b>>} :
        c[2] # NotCalled =>
            /\ Overlong(c[1]) =>
                  c[2].status = "AssertionError" /\ "logits" \notin DOMAIN c[2]
            /\ c[2].status = "ok" => TLen(c[2].logits) = TLen(c[1])

C1_Witness == Overlong(input_a) /\ result_a.status = "AssertionError"

AgreeUpTo(a, b, i) == \A j \in 0..i : a[j] = b[j]

\* C3: two inputs of the same length that agree on positions 0..i get the
\* same logits at every position 0..i; and the mask slice forward uses is 0
\* on and below the diagonal and -inf strictly above it.
C3_Causality ==
    /\ (result_a.status = "ok" /\ result_b.status = "ok"
            /\ TLen(input_a) = TLen(input_b)) =>
          \A i \in DOMAIN input_a :
              AgreeUpTo(input_a, input_b, i) =>
                  \A k \in 0..i : result_a.logits[k] = result_b.logits[k]
    /\ result_a.status = "ok" =>
          LET m == MaskSlice(CausalMask(MaxSeqLength), TLen(input_a))
          IN  \A i, j \in DOMAIN input_a :
                  m[i][j] = IF j <= i THEN 0 ELSE NegInf

C3_Witness ==
    /\ result_a.status = "ok" /\ result_b.status = "ok"
    /\ TLen(input_a) = TLen(input_b)
    /\ \E i \in DOMAIN input_a :
          /\ AgreeUpTo(input_a, input_b, i)
          /\ \E j \in DOMAIN input_a : j > i /\ input_a[j] # input_b[j]
          /\ \A k \in 0..i : result_a.logits[k] = result_b.logits[k]
          /\ \E j \in DOMAIN input_a : result_a.logits[j] # result_b.logits[j]

----------------------------------------------------------------------------
(* Claims about the SFT data path (SpecSFT) *)

\* The prompt/response boundary of the example, from the raw text lengths.
InputLength(ex) == TLen(FullText(ex)) - TLen(ex.assistant)

\* C5: with mask_input, labels 0..m-1 are the ignore value, where m is
\* min(len(full_text) - len(assistant_text), max_seq_length), so that
\* 0 <= m <= max_seq_length; input_ids still hold the tokens of the text.
C5_PromptLabelsIgnored ==
    (item.status = "ok" /\ mask_input) =>
        LET full == FullText(example)
            m    == Min(InputLength(example), sft_max)
        IN  /\ 0 <= m /\ m <= sft_max
            /\ TLen(item.labels) = sft_max /\ TLen(item.input_ids) = sft_max
            /\ \A t \in 0..(m - 1) : item.labels[t] = IgnoreIndex
            /\ \A t \in 0..(sft_max - 1) :
                  item.input_ids[t] =
                      IF t < TLen(full) THEN full[t] % TokenModulus ELSE PadId

C5_Witness ==
    /\ item.status = "ok" /\ mask_input
    /\ InputLength(example) < sft_max
    /\ item.labels[InputLength(example) - 1] = IgnoreIndex
    /\ item.labels[InputLength(example)] # IgnoreIndex

\* C6: with mask_input, a label that is not the ignore value, and so a
\* term of the loss, sits at a position that holds a token of the assistant
\* response: not in the prompt, and not in the padding after the text.
C6_OnlyResponseContributes ==
    (item.status = "ok" /\ mask_input) =>
        LET first == InputLength(example)
            end   == Min(TLen(FullText(example)), sft_max)
        IN  /\ \A t \in DOMAIN item.labels :
                  item.labels[t] # IgnoreIndex => (first <= t /\ t < end)
            /\ sft_out.status = "ok" =>
                  \A term \in sft_out.loss : first <= term.pos /\ term.pos < end

----------------------------------------------------------------------------
(* Claims about the DPO data path (SpecDPOData) *)

\* The terms of one row's response log-probability from offset p on: the
\* logits at t - 1 with the token at t, for the tokens that are not padding.
ResponseTerms(ids, p, max_seq_length) ==
    LET full == Forward(ids, <<>>, max_seq_length).logits
    IN  {[logits |-> full[t - 1], label |-> ids[t]] :
            t \in {u \in p..(TLen(ids) - 1) : ids[u] # PadId}}

\* C7: for every offset p the dataset can produce, p = 0 included,
\* get_log_probs succeeds, its logit slice and label slice are equally long,
\* and each row's result is the sum of the terms of positions p..L-1.
C7_ResponseLogProbs ==
    logps # NotCalled =>
        LET p == batch.prompt_length[0]
        IN  /\ logps.status = "ok"
            /\ \A r \in DOMAIN pairs :
                  \A ids \in {batch.chosen_ids[r], batch.rejected_ids[r]} :
                      TLen(PySlice(ids, p - 1, -1)) = TLen(PySliceFrom(ids, p))
            /\ \A r \in DOMAIN pairs :
                  /\ logps.chosen[r] = ResponseTerms(batch.chosen_ids[r], p, dpo_max)
                  /\ logps.rejected[r] = ResponseTerms(batch.rejected_ids[r], p, dpo_max)

\* C8: in a micro-batch, each pair's chosen and rejected log-probabilities
\* are computed from that pair's own prompt offset (position 0 has no
\* preceding logit, so the terms start at 1 at the earliest).
C8_OwnOffset ==
    (logps # NotCalled /\ logps.status = "ok") =>
        \A r \in DOMAIN pairs :
            LET own == Max(Min(TLen(pairs[r].prompt), dpo_max), 1)
            IN  /\ logps.chosen[r] = ResponseTerms(batch.chosen_ids[r], own, dpo_max)
                /\ logps.rejected[r] = ResponseTerms(batch.rejected_ids[r], own, dpo_max)

----------------------------------------------------------------------------
(* Claims about the DPO loss (SpecLoss) *)

\* The margin of example r as the claim states it, in tenths.
Margin(in, b, r) ==
    b * ((in.policy_chosen[r] - in.ref_chosen[r])
         - (in.policy_rejected[r] - in.ref_rejected[r]))

\* The scenario of the specification: one example, policy_chosen = -2,
\* policy_rejected = -3, ref_chosen = -2, ref_rejected = -2, beta = 0.1.
Scenario ==
    /\ TLen(loss_in.policy_chosen) = 1
    /\ loss_in.policy_chosen[0] = -2 /\ loss_in.policy_rejected[0] = -3
    /\ loss_in.ref_chosen[0] = -2 /\ loss_in.ref_rejected[0] = -2
    /\ beta = 1

\* C9: dpo_loss forms for each example the margin
\* beta * ((policy_chosen - ref_chosen) - (policy_rejected - ref_rejected))
\* and returns the mean over the batch of the per-example losses of the
\* margins; in the scenario the margin is 0.1 (and the loss, without
\* smoothing, 0.644).
C9_MarginAndMean ==
    loss_out # NotCalled =>
        LET n == TLen(loss_in.policy_chosen)
            losses == [r \in 0..(n - 1) |->
                ExampleLoss(Margin(loss_in, beta, r), label_smoothing)]
        IN  /\ \A r \in 0..(n - 1) : loss_out.logits[r] = Margin(loss_in, beta, r)
            /\ loss_out.value = TSum(losses, n) \div n
            /\ Scenario => loss_out.logits[0] = 1
            /\ (Scenario /\ label_smoothing = 0) =>
                  loss_out.value \div 10000 = 644

C9_Witness == loss_out # NotCalled /\ Scenario /\ label_smoothing = 0

\* C10 as stated: for every label_smoothing the function accepts, the loss
\* after the policy's chosen log-probability rose is strictly smaller than
\* before.
C10_DecreasingForAnySmoothing ==
    loss_prev # NotCalled => loss_out.value < loss_prev.out.value

\* C10 as amended: without smoothing (label_smoothing <= 0) the loss
\* strictly decreases when the policy's chosen log-probability rises; it
\* is positive, at most 1 / (1 + margin) for a margin >= 0 (so it
\* tends to 0), and at least -margin for a margin < 0 (so it is
\* unbounded).
C10_DecreasingWithoutSmoothing ==
    label_smoothing <= 0 =>
        /\ loss_prev # NotCalled => loss_out.value < loss_prev.out.value
        /\ (loss_out # NotCalled /\ TLen(loss_in.policy_chosen) = 1) =>
              LET m == loss_out.logits[0]
              IN  /\ loss_out.value > 0
                  /\ m >= 0 => (loss_out.value \div 100) * (10 + m) <= 1000000
                  /\ m < 0 => loss_out.value >= (0 - m) * 1000000

C10_Witness ==
    /\ label_smoothing <= 0
    /\ loss_prev # NotCalled
    /\ loss_out.value < loss_prev.out.value
    /\ loss_prev.out.logits[0] > 10

----------------------------------------------------------------------------
(* Claims about the parameters during DPO training (SpecDPOTrain) *)

Tied(slots) ==
    StorageOf(heap, slots, "output.weight")
        = StorageOf(heap, slots, "token_embedding.weight")

\* C2: in every state from the construction on - after the weights are
\* initialised, after a checkpoint is loaded, after the reference is
\* copied, after every optimiser step - the output projection's weight and
\* the embedding's weight are the same storage, in the policy and in the
\* reference.
C2_WeightsTied ==
    /\ policy # NoModel => Tied(policy)
    /\ ref # NoModel => Tied(ref)

C2_Witness ==
    /\ pc = "done" /\ step >= 2 /\ cuda /\ load_from.exists
    /\ ref # NoModel /\ Tied(policy) /\ Tied(ref)
    /\ ValueOf(heap, policy, "output.weight")
          # load_from.model_state_dict["output.weight"]
    /\ ValueOf(heap, policy, "output.weight")
          = ValueOf(heap, policy, "token_embedding.weight")

\* C4: once the reference is cloned, every parameter of it keeps the value
\* the policy had at the clone; it is cloned once; no parameter of it is
\* among the optimiser's; it shares no Parameter and no storage with the
\* policy; and it neither requires nor holds a gradient.
C4_ReferenceFrozen ==
    /\ clones <= 1
    /\ ref # NoModel =>
          /\ clones = 1
          /\ \A n \in ParamNames : ValueOf(heap, ref, n) = cloned_values[n]
          /\ Parameters(ref) \cap opt_params = {}
          /\ Parameters(ref) \cap Parameters(policy) = {}
          /\ Storages(heap, ref) \cap Storages(heap, policy) = {}
          /\ \A p \in Parameters(ref) :
                ~heap.params[p].requires_grad /\ heap.params[p].grad = 0

C4_Witness ==
    /\ pc = "done" /\ step >= 2 /\ ref # NoModel
    /\ \A n \in ParamNames : ValueOf(heap, ref, n) = cloned_values[n]
    /\ \A n \in ParamNames : ValueOf(heap, policy, n) # cloned_values[n]

----------------------------------------------------------------------------
(* Claims about the shapes of forward (SpecShape) *)

\* The query head count is a multiple of the key/value head count.
WholeRatio(config) == config.n_heads % config.n_kv_heads = 0

\* C11: for every batch size B >= 1 and every sequence length S with
\* 1 <= S <= max_seq_length, and every whole ratio n_heads / n_kv_heads,
\* forward returns logits of shape (B, S, vocab_size), and every block
\* gives a (B, S, d_model) output.
C11_LogitsShape ==
    (/\ shape_out # NotCalled
     /\ shape_in[2] <= shape_cfg.max_seq_length
     /\ WholeRatio(shape_cfg))
    => /\ shape_out.status = "ok"
       /\ shape_out.logits = <<shape_in[1], shape_in[2], shape_cfg.vocab_size>>
       /\ Len(shape_out.layers) = shape_cfg.n_layers
       /\ \A i \in 1..Len(shape_out.layers) :
             shape_out.layers[i] = <<shape_in[1], shape_in[2], shape_cfg.d_model>>

C11_Witness ==
    /\ shape_out # NotCalled
    /\ shape_cfg.n_heads = 3 /\ shape_cfg.n_kv_heads = 1
    /\ shape_in = <<2, 2>>
    /\ shape_out.status = "ok"
    /\ shape_out.logits = <<2, 2, 7>>

----------------------------------------------------------------------------
(* Claims about the dataset constructors (SpecLoad) *)

\* The keys a record must hold to be complete.
RequiredKeys(kind) ==
    IF kind = "sft" THEN {"user", "assistant"}
    ELSE {"prompt", "chosen", "rejected"}

RECURSIVE CompleteRecords(_, _)
\* The records of the lines that parse and are complete, in file order.
CompleteRecords(lines, kind) ==
    IF lines = <<>> THEN <<>>
    ELSE LET rest == CompleteRecords(Tail(lines), kind)
         IN  IF Head(lines).json
                /\ RequiredKeys(kind) \subseteq DOMAIN Head(lines).record
             THEN <<Head(lines).record>> \o rest
             ELSE rest

\* C20: a line that cannot be parsed, or a record that is incomplete, is
\* skipped: loading does not abort, and the examples of the dataset are the
\* complete records of the file, in order.
C20_BadRecordsSkipped ==
    dataset # NotCalled =>
        /\ dataset.status = "ok"
        /\ dataset.examples = CompleteRecords(data_file.lines, data_kind)

----------------------------------------------------------------------------
(* Claims about the training loops of the three stages (SpecTrain) *)

\* C12: in every stage, the gradients an optimiser step applies are those of
\* exactly gradient_accumulation_steps backward passes since the gradients
\* were last zeroed.
C12_ExactAccumulation ==
    pc = "opt_step" =>
        \A p \in opt_params :
            heap.params[p].grad = cfg.gradient_accumulation_steps

C12_Witness ==
    /\ pc = "opt_step" /\ stage = "pretrain" /\ step = 2
    /\ cfg.gradient_accumulation_steps = 2
    /\ \A p \in opt_params : heap.params[p].grad = 2

\* C13: in every stage, the gradients an optimiser step applies were
\* clipped, and no backward pass ran after the clip; gradients are clipped
\* only when their accumulation window is complete.
C13_ClipBeforeStep ==
    /\ pc = "opt_step" => \A p \in opt_params : heap.params[p].clipped
    /\ \A p \in opt_params :
          heap.params[p].clipped =>
              heap.params[p].grad = cfg.gradient_accumulation_steps

C13_Witness ==
    /\ pc = "opt_step" /\ stage = "sft" /\ step = 1
    /\ cfg.gradient_accumulation_steps = 2
    /\ \A p \in opt_params : heap.params[p].clipped

\* C14: in every stage, the learning rate in force at an optimiser step is
\* the warmup-then-cosine schedule at the step counter.
C14_ScheduledRate ==
    pc = "opt_step" => lr = GetLr(step, cfg)

\* The snapshots written so far, every save_every_steps steps.
Written == {k \in 1..step : k % cfg.save_every_steps = 0}

\* C15: in pretraining, after a snapshot is written and pruned, the
\* snapshots that remain are the min(keep_last_n, number written) of the
\* largest step numbers.
C15_NewestKept ==
    (/\ stage = "pretrain" /\ pc = "loop"
     /\ step > 0 /\ step % cfg.save_every_steps = 0)
    => StepsOf(files)
          = {k \in Written :
                Cardinality({j \in Written : j > k}) < cfg.keep_last_n}

\* C16: in SFT and DPO, at most keep_last_n snapshots remain.
C16_AtMostNSnapshots ==
    stage \in {"sft", "dpo"} =>
        Cardinality(StepsOf(files)) <= cfg.keep_last_n

\* C17: when train() returns, final.pt holds the step counter, the model's
\* parameters and the configuration as of the loop's exit, and latest is a
\* link to final.pt, the only one - also over a latest of an earlier run.
C17_FinalAndLatest ==
    pc = "done" =>
        /\ {f \in files : f.name = "final"} = {FinalRecord}
        /\ {f \in files : f.name = "latest"}
              = {[name |-> "latest", target |-> "final"]}

C17_Witness ==
    /\ pc = "done" /\ step = 2
    /\ \E f \in earlier : f.name = "latest"
    /\ FinalRecord \in files
    /\ [name |-> "latest", target |-> "final"] \in files

\* C18: in SFT and DPO, a checkpoint at load_from that is missing or cannot
\* be read does not abort the stage.
C18_LoadNeverAborts ==
    pc # "raised_load"

\* C19: in SFT and DPO, training that begins without a loaded checkpoint
\* has logged a warning before its first step.
C19_WarningLogged ==
    (/\ stage \in {"sft", "dpo"}
     /\ pc \in {"forward", "backward", "clip", "set_lr", "opt_step",
                "zero_grad", "advance"}
     /\ "loaded" \notin log)
    => "random_weights" \in log

----------------------------------------------------------------------------
(* Claims about examples longer than max_seq_length (SpecSFT, SpecDPOData) *)

\* C22: an SFT example whose text is longer than max_seq_length is not
\* shortened: building its item fails, no item of a truncated text exists.
C22_OverLongFails ==
    TLen(FullText(example)) > sft_max => item.status # "ok"

\* C27: with mask_input, every item has at least one label among positions
\* 1..max_seq_length-1 that is not the ignore value.
C27_SomeLabelKept ==
    (item.status = "ok" /\ mask_input) =>
        \E t \in 1..(sft_max - 1) : item.labels[t] # IgnoreIndex

----------------------------------------------------------------------------
(* Claims about what the steps of the training loops write (SpecTrain) *)

\* The positions of train() from the head of the loop to the writing of
\* final.pt, other than optimizer.step().
NonStepPcs == {"loop", "forward", "backward", "clip", "set_lr", "zero_grad",
               "advance", "final"}

\* C24: parameter values change only in the optimiser step - the forward and
\* backward passes, clipping, the assignment of the learning rate, the log
\* line and the saving of checkpoints leave every value as it was - and
\* no optimiser step comes between a micro-batch's forward pass and its
\* backward pass: the forward pass is followed by the backward pass, or
\* it raises and train() ends.
C24_OnlyOptimizerWrites ==
    [][/\ pc \in NonStepPcs => heap'.storage = heap.storage
       /\ pc = "forward" => pc' \in {"backward", "raised_forward"}]_vars

C24_Witness ==
    /\ pc = "backward" /\ stage = "pretrain" /\ step = 2
    /\ \A n \in ParamNames : ValueOf(heap, policy, n) >= 2

\* C25: in SFT and DPO, when final.pt is written every gradient of a
\* micro-batch has been applied by an optimiser step: none is left
\* accumulated.
C25_NoGradientLeft ==
    (pc = "final" /\ stage \in {"sft", "dpo"}) =>
        \A p \in opt_params : heap.params[p].grad = 0

\* C26: in SFT and DPO, a snapshot step_<k>.pt is written at an
\* optimiser-step boundary: no gradient is accumulated and unapplied when
\* it is saved.
C26_SnapshotAtBoundary ==
    (/\ stage \in {"sft", "dpo"} /\ pc = "loop"
     /\ step > 0 /\ step % cfg.save_every_steps = 0)
    => /\ Snapshot(step) \in files
       /\ \A p \in opt_params : heap.params[p].grad = 0

----------------------------------------------------------------------------
(* Claims about the end of the training loops (SpecTrainFair) *)

\* C30: in every stage, for every total_steps >= 0 and
\* gradient_accumulation_steps >= 1, the loop that was entered terminates,
\* and the step counter at its exit, the one final.pt records, equals
\* total_steps.
C30_LoopTerminates ==
    (pc = "loop") ~>
        (/\ pc = "final"
         /\ step = cfg.total_steps
         /\ FinalRecord.step = cfg.total_steps)

----------------------------------------------------------------------------
(* Claims about a run started again after an abort (SpecResume) *)

\* The snapshots among the files fs that were written whole.
CompleteSnapshots(fs) ==
    {f \in fs : f.name = "step" /\ "model_state_dict" \in DOMAIN f}

\* The complete snapshot with the largest step number among the files fs.
LastSnapshot(fs) ==
    CHOOSE f \in CompleteSnapshots(fs) :
        \A g \in CompleteSnapshots(fs) : g.step <= f.step

\* C21: a run started again after an abort that left at least one complete
\* snapshot continues from the last of them: in its loop the step counter
\* is never below the snapshot's, and it enters the loop with the
\* snapshot's parameters.
C21_ResumesFromCheckpoint ==
    (runs > 0 /\ pc \in LoopPcs /\ CompleteSnapshots(earlier) # {}) =>
        LET last == LastSnapshot(earlier)
        IN  /\ step >= last.step
            /\ (pc = "loop" /\ step = last.step) =>
                   StateDict(heap, policy) = last.model_state_dict

----------------------------------------------------------------------------
(* Claims about repeat_kv (SpecRepeat) *)

\* C23: repeat_kv with factor n_rep returns a tensor of n_kv_heads * n_rep
\* heads in which head h is a copy of head floor(h / n_rep) of the input;
\* with factor 1 it returns its input.
C23_HeadsRepeated ==
    returned # NotCalled =>
        LET x   == args.x
            out == returned.value
        IN  /\ returned.status = "ok"
            /\ out.shape = <<x.shape[1], x.shape[2] * args.n_rep,
                             x.shape[3], x.shape[4]>>
            /\ DOMAIN out.data = 0..(Numel(out.shape) - 1)
            /\ \A b \in 0..(x.shape[1] - 1) :
               \A h \in 0..(x.shape[2] * args.n_rep - 1) :
               \A s \in 0..(x.shape[3] - 1) :
               \A d \in 0..(x.shape[4] - 1) :
                  At4(out, b, h, s, d) = At4(x, b, h \div args.n_rep, s, d)
            /\ args.n_rep = 1 => out = x

C23_Witness ==
    /\ returned # NotCalled
    /\ args.n_rep = 2 /\ args.x.shape = <<2, 2, 2, 2>>
    /\ At4(args.x, 1, 0, 1, 1) # At4(args.x, 1, 1, 1, 1)
    /\ At4(returned.value, 1, 1, 1, 1) = At4(args.x, 1, 0, 1, 1)
    /\ At4(returned.value, 1, 2, 1, 1) = At4(args.x, 1, 1, 1, 1)

----------------------------------------------------------------------------
(* Claims about the names of the exported tensors (SpecMap) *)

\* "blk.<i>" + suffix
BlkKey(i, suffix) == <<98, 108, 107, 46>> \o Digits(i) \o suffix

\* Whether sub occurs in s.
Contains(s, sub) ==
    \E k \in 1..(Len(s) - Len(sub) + 1) :
        SubSeq(s, k, k + Len(sub) - 1) = sub

\* C28: _map_tensor_name turns 'norm.weight' into 'output_norm.weight' and
\* no other key into a name that holds 'output_norm.weight';
\* 'layers.<i>.attention_norm.weight' becomes 'blk.<i>.attn_norm.weight'
\* and 'layers.<i>.ffn_norm.weight' becomes 'blk.<i>.ffn_norm.weight'.
C28_NormNamesMapped ==
    returned # NotCalled =>
        LET key  == args.pytorch_name
            name == returned.value
        IN  /\ key = NormKey => name = <<111, 117, 116, 112, 117, 116, 95, 110, 111, 114, 109, 46, 119, 101, 105, 103, 104, 116>>
            /\ key # NormKey => ~Contains(name, <<111, 117, 116, 112, 117, 116, 95, 110, 111, 114, 109, 46, 119, 101, 105, 103, 104, 116>>)
            /\ \A i \in 0..MaxLayerIndex :
                  /\ key = LayerKey(i, <<46, 97, 116, 116, 101, 110, 116, 105, 111, 110, 95, 110, 111, 114, 109, 46, 119, 101, 105, 103, 104, 116>>)
                        => name = BlkKey(i, <<46, 97, 116, 116, 110, 95, 110, 111, 114, 109, 46, 119, 101, 105, 103, 104, 116>>)
                  /\ key = LayerKey(i, <<46, 102, 102, 110, 95, 110, 111, 114, 109, 46, 119, 101, 105, 103, 104, 116>>)
                        => name = BlkKey(i, <<46, 102, 102, 110, 95, 110, 111, 114, 109, 46, 119, 101, 105, 103, 104, 116>>)

----------------------------------------------------------------------------
(* Claims about the shards of a model file (SpecShard) *)

RECURSIVE ConcatShards(_, _)
\* The bytes of the shard files, in the order of the manifest's entries.
ConcatShards(shards, written) ==
    IF shards = <<>> THEN <<>>
    ELSE (CHOOSE w \in written : w.filename = shards[1].filename).data
         \o ConcatShards(Tail(shards), written)

\* C29: for an existing file and shard_size >= 1, shard_model writes the
\* shards 0, 1, 2, ... in read order; each entry's offset is the sum of the
\* sizes before it; every shard but the last has size shard_size and none
\* is empty; shard_count is the number of entries; the sizes sum to
\* total_bytes; and the shards, concatenated, are the file.
C29_ShardsPartitionFile ==
    (returned # NotCalled /\ args.model_file.exists) =>
        /\ returned.status = "ok"
        /\ LET m  == returned.manifest
               sh == m.shards
               n  == Len(sh)
           IN  /\ m.shard_count = n
               /\ m.total_bytes = Len(args.model_file.bytes)
               /\ SumSizes(sh) = m.total_bytes
               /\ \A k \in 1..n :
                     /\ sh[k].filename = ShardFileName(k - 1)
                     /\ sh[k].offset = SumSizes(SubSeq(sh, 1, k - 1))
                     /\ sh[k].size_bytes > 0
                     /\ k < n => sh[k].size_bytes = args.shard_size
                     /\ sh[k].size_bytes <= args.shard_size
               /\ Cardinality(returned.written) = n
               /\ ConcatShards(sh, returned.written) = args.model_file.bytes

C29_Witness ==
    /\ returned # NotCalled /\ args.model_file.exists
    /\ Len(args.model_file.bytes) = 4 /\ args.shard_size = 3
    /\ returned.manifest.shard_count = 2
    /\ returned.manifest.shards[2].offset = 3
    /\ returned.manifest.shards[2].size_bytes = 1

====
